---- MODULE Spec2Model ----
(***************************************************************************)
(* Event reconciliation and zone-safety derivation of the dinopark         *)
(* maintenance API: the NUDLS event processors (nudls-processors.ts), the  *)
(* batch loop that drives them, and the safety evaluator                   *)
(* (safety-and-maintenance.ts), over the three tables of the schema.       *)
(* The bookkeeping columns createdAt / updatedAt are not modelled.         *)
(***************************************************************************)
EXTENDS Integers, Sequences, FiniteSets, TLC

VARIABLES dinosaurs,          \* table dinosaurs, keyed by nudls_id (unique)
          zones,              \* table zones: id -> last_maintenance_date
          maintenanceRecords, \* table maintenance_records: zone_id -> performed_at
          event,              \* loop variable of processEvents: event dispatched last
          log,                \* outcome the processor logged for that event
          pending,            \* events of the current batch not yet iterated
          processed,          \* processEvents: let processed
          failed,             \* processEvents: let failed
          errors,             \* processEvents: const errors
          now,                \* wall clock (new Date()), in milliseconds
          verdict,            \* last result returned by calculateZoneSafety
          eventsLength,       \* processEvents: events.length of the current batch
          maintenanceDue,     \* last call of isMaintenanceNeeded and its result
          zoneIds,            \* last result of generateAllZoneIds
          runner,             \* concurrent processEvents runs: position and event
          response,           \* last HTTP response of the zones router
          service,            \* NudlsService: isRunning, pollInterval, status
          polls,              \* calls of pollNudlsFeed: position and fetch history
          gridRequest         \* GET /grid in progress: safety queries not yet answered

vars == <<dinosaurs, zones, maintenanceRecords, event, log, pending,
          processed, failed, errors, now, verdict, eventsLength,
          maintenanceDue, zoneIds, runner, response, service, polls,
          gridRequest>>

-----------------------------------------------------------------------------
(* Values *)

\* SQL NULL / JS null of a numeric or timestamp column
NullNum == 0 - 1
\* SQL NULL / JS null of a varchar column
NullText == "null"

\* Longest batch handed to processEvents
MaxBatch == 2
\* Number of successive applications of one event that are compared
MaxRepeat == 3

\* 1000 * 60 * 60 milliseconds
HourMs == 3600000

\* Schema defaults of the dinosaurs table
DefaultHerbivore == TRUE
DefaultDigestionPeriodHours == 12

\* nudls ids carried by events; 0 is a number that JavaScript treats as falsy
EventIds == {0, 7}
\* ids of the rows the safety evaluator is exercised on
SafetyIds == {7, 8}
ParkIds == {1, 2}
Locations == {"A0", "B1"}
\* event.time values (milliseconds since the epoch)
EventTimes == {1000, 2000}

\* The two identity payloads carried by dino_added events
Profiles ==
  { [name |-> "Rex", species |-> "Tyrannosaurus", gender |-> "male",
     herbivore |-> FALSE, digestion_period_in_hours |-> 12, park_id |-> 1],
    [name |-> "Blue", species |-> "Triceratops", gender |-> "female",
     herbivore |-> TRUE, digestion_period_in_hours |-> 48, park_id |-> 2] }

DinoAddedEvents ==
  { [kind |-> "dino_added", id |-> i, name |-> p.name, species |-> p.species,
     gender |-> p.gender, herbivore |-> p.herbivore,
     digestion_period_in_hours |-> p.digestion_period_in_hours,
     park_id |-> p.park_id] : i \in EventIds, p \in Profiles }

DinoRemovedEvents ==
  { [kind |-> "dino_removed", id |-> i] : i \in EventIds }

DinoLocationUpdatedEvents ==
  { [kind |-> "dino_location_updated", dinosaur_id |-> i, location |-> l,
     park_id |-> p] : i \in EventIds, l \in Locations, p \in ParkIds }

DinoFedEvents ==
  { [kind |-> "dino_fed", dinosaur_id |-> i, time |-> t, park_id |-> p] :
       i \in EventIds, t \in EventTimes, p \in ParkIds }

\* location NullText: the event arrived without a location
MaintenancePerformedEvents ==
  { [kind |-> "maintenance_performed", location |-> l, time |-> t] :
       l \in Locations \cup {NullText}, t \in EventTimes }

NudlsEvents == DinoAddedEvents \cup DinoRemovedEvents
                 \cup DinoLocationUpdatedEvents \cup DinoFedEvents
                 \cup MaintenancePerformedEvents

NoEvent == [kind |-> "none"]

\* JavaScript truthiness of a number-or-null (!x is true for 0 and null)
Truthy(x) == x # NullNum /\ x # 0

\* The three tables as one value
DB == [dinosaurs |-> dinosaurs, zones |-> zones,
       maintenanceRecords |-> maintenanceRecords]

-----------------------------------------------------------------------------
(* Change detection helpers *)

\* Variant: a dinosaur that is not stored counts as unchanged
HasLocationChanged_StoredOnly(db, nudlsId, newLocation) ==
  /\ nudlsId \in DOMAIN db.dinosaurs
  /\ db.dinosaurs[nudlsId].currentLocation # newLocation

HasLocationChanged(db, nudlsId, newLocation) ==
  \/ nudlsId \notin DOMAIN db.dinosaurs
  \/ db.dinosaurs[nudlsId].currentLocation # newLocation

HasFeedingChanged(db, nudlsId, newFeedTime) ==
  \/ nudlsId \notin DOMAIN db.dinosaurs
  \/ db.dinosaurs[nudlsId].lastFedTime = NullNum
  \/ db.dinosaurs[nudlsId].lastFedTime # newFeedTime

HasMaintenanceChanged(db, zoneId, newPerformedAt) ==
  \/ zoneId \notin DOMAIN db.maintenanceRecords
  \/ db.maintenanceRecords[zoneId] = NullNum
  \/ db.maintenanceRecords[zoneId] # newPerformedAt

HasDinosaurIdentityChanged(db, e) ==
  \/ e.id \notin DOMAIN db.dinosaurs
  \/ LET current == db.dinosaurs[e.id]
     IN  \/ current.name # e.name
         \/ current.species # e.species
         \/ current.gender # e.gender
         \/ current.herbivore # e.herbivore
         \/ current.digestionPeriodHours # e.digestion_period_in_hours
         \/ current.parkId # e.park_id

-----------------------------------------------------------------------------
(* Upserts: INSERT ... ON CONFLICT (key) DO UPDATE SET ... *)

\* Variant: the default of the herbivore column is false
ShellRow_Carnivore(parkId, location, fedTime) ==
  [name |-> NullText, species |-> NullText, gender |-> NullText,
   herbivore |-> FALSE,
   digestionPeriodHours |-> DefaultDigestionPeriodHours,
   parkId |-> parkId, currentLocation |-> location, lastFedTime |-> fedTime]

\* A row inserted with only some columns given takes the schema defaults
ShellRow(parkId, location, fedTime) ==
  [name |-> NullText, species |-> NullText, gender |-> NullText,
   herbivore |-> DefaultHerbivore,
   digestionPeriodHours |-> DefaultDigestionPeriodHours,
   parkId |-> parkId, currentLocation |-> location, lastFedTime |-> fedTime]

\* Variant: the conflict branch adds the digestion period to the stored one
UpsertDinoAdded_Accumulate(rows, e) ==
  IF e.id \in DOMAIN rows
    THEN [rows EXCEPT ![e.id] =
            [@ EXCEPT !.name = e.name, !.species = e.species,
                      !.gender = e.gender, !.herbivore = e.herbivore,
                      !.digestionPeriodHours = @ + e.digestion_period_in_hours,
                      !.parkId = e.park_id]]
    ELSE (e.id :> [name |-> e.name, species |-> e.species,
                   gender |-> e.gender, herbivore |-> e.herbivore,
                   digestionPeriodHours |-> e.digestion_period_in_hours,
                   parkId |-> e.park_id, currentLocation |-> NullText,
                   lastFedTime |-> NullNum]) @@ rows

\* Variant: the conflict branch reuses the inserted values, nulls included
UpsertDinoAdded_ResetOperational(rows, e) ==
  (e.id :> [name |-> e.name, species |-> e.species,
            gender |-> e.gender, herbivore |-> e.herbivore,
            digestionPeriodHours |-> e.digestion_period_in_hours,
            parkId |-> e.park_id, currentLocation |-> NullText,
            lastFedTime |-> NullNum]) @@ rows

UpsertDinoAdded(rows, e) ==
  IF e.id \in DOMAIN rows
    THEN [rows EXCEPT ![e.id] =
            [@ EXCEPT !.name = e.name, !.species = e.species,
                      !.gender = e.gender, !.herbivore = e.herbivore,
                      !.digestionPeriodHours = e.digestion_period_in_hours,
                      !.parkId = e.park_id]]
    ELSE (e.id :> [name |-> e.name, species |-> e.species,
                   gender |-> e.gender, herbivore |-> e.herbivore,
                   digestionPeriodHours |-> e.digestion_period_in_hours,
                   parkId |-> e.park_id, currentLocation |-> NullText,
                   lastFedTime |-> NullNum]) @@ rows

\* Variant: the conflict branch also writes parkId, as the insert does
UpsertLocation_OverwritesPark(rows, e) ==
  IF e.dinosaur_id \in DOMAIN rows
    THEN [rows EXCEPT ![e.dinosaur_id] =
            [@ EXCEPT !.currentLocation = e.location, !.parkId = e.park_id]]
    ELSE (e.dinosaur_id :> ShellRow(e.park_id, e.location, NullNum)) @@ rows

UpsertLocation(rows, e) ==
  IF e.dinosaur_id \in DOMAIN rows
    THEN [rows EXCEPT ![e.dinosaur_id] = [@ EXCEPT !.currentLocation = e.location]]
    ELSE (e.dinosaur_id :> ShellRow(e.park_id, e.location, NullNum)) @@ rows

UpsertFeeding(rows, e) ==
  IF e.dinosaur_id \in DOMAIN rows
    THEN [rows EXCEPT ![e.dinosaur_id] = [@ EXCEPT !.lastFedTime = e.time]]
    ELSE (e.dinosaur_id :> ShellRow(e.park_id, NullText, e.time)) @@ rows

\* maintenance_records (unique zone_id) and zones (primary key id) both map
\* the zone to the timestamp of the event
UpsertTimestamp(table, zoneId, performedTime) ==
  IF zoneId \in DOMAIN table
    THEN [table EXCEPT ![zoneId] = performedTime]
    ELSE (zoneId :> performedTime) @@ table

DeleteDinosaur(rows, nudlsId) ==
  [i \in DOMAIN rows \ {nudlsId} |-> rows[i]]

-----------------------------------------------------------------------------
(* Processors: each returns the tables after the call, what it logged, and *)
(* whether it threw to its caller                                           *)

Outcome(db, logged, threw) == [db |-> db, log |-> logged, threw |-> threw]

ProcessDinoAdded(db, e) ==
  IF ~HasDinosaurIdentityChanged(db, e)
    THEN Outcome(db, "skipped", FALSE)
  ELSE IF e.id = NullNum   \* nudls_id is NOT NULL: the insert is rejected
    THEN Outcome(db, "error", TRUE)
  ELSE Outcome([db EXCEPT !.dinosaurs = UpsertDinoAdded(@, e)], "applied", FALSE)

\* Variant: removing a dinosaur that is not stored is an error
ProcessDinoRemoved_ThrowOnMissing(db, e) ==
  IF ~Truthy(e.id)
    THEN Outcome(db, "skipped", FALSE)
  ELSE IF e.id \notin DOMAIN db.dinosaurs
    THEN Outcome(db, "error", TRUE)
  ELSE Outcome([db EXCEPT !.dinosaurs = DeleteDinosaur(@, e.id)], "applied", FALSE)

ProcessDinoRemoved(db, e) ==
  IF ~Truthy(e.id)
    THEN Outcome(db, "skipped", FALSE)
  ELSE IF e.id \notin DOMAIN db.dinosaurs
    THEN Outcome(db, "skipped", FALSE)
  ELSE Outcome([db EXCEPT !.dinosaurs = DeleteDinosaur(@, e.id)], "applied", FALSE)

\* Variant: an update without a location takes the dinosaur out of the park
ProcessDinoLocationUpdated_NullLocationRemoves(db, e) ==
  IF ~Truthy(e.dinosaur_id)
    THEN Outcome(db, "skipped", FALSE)
  ELSE IF e.location = NullText \/ e.location = ""
    THEN Outcome([db EXCEPT !.dinosaurs = DeleteDinosaur(@, e.dinosaur_id)],
                 "applied", FALSE)
  ELSE IF ~HasLocationChanged(db, e.dinosaur_id, e.location)
    THEN Outcome(db, "skipped", FALSE)
  ELSE Outcome([db EXCEPT !.dinosaurs = UpsertLocation(@, e)], "applied", FALSE)

\* Variant: only the id is looked at before the location is written
ProcessDinoLocationUpdated_NoLocationGuard(db, e) ==
  IF ~Truthy(e.dinosaur_id)
    THEN Outcome(db, "skipped", FALSE)
  ELSE IF ~HasLocationChanged(db, e.dinosaur_id, e.location)
    THEN Outcome(db, "skipped", FALSE)
  ELSE Outcome([db EXCEPT !.dinosaurs = UpsertLocation(@, e)], "applied", FALSE)

ProcessDinoLocationUpdated(db, e) ==
  IF ~Truthy(e.dinosaur_id)
    THEN Outcome(db, "skipped", FALSE)
  ELSE IF e.location = NullText \/ e.location = ""
    THEN Outcome(db, "skipped", FALSE)
  ELSE IF ~HasLocationChanged(db, e.dinosaur_id, e.location)
    THEN Outcome(db, "skipped", FALSE)
  ELSE Outcome([db EXCEPT !.dinosaurs = UpsertLocation(@, e)], "applied", FALSE)

\* Variant: a feeding for an unknown dinosaur is dropped (update only)
ProcessDinoFed_UpdateOnly(db, e) ==
  IF ~Truthy(e.dinosaur_id)
    THEN Outcome(db, "skipped", FALSE)
  ELSE IF e.dinosaur_id \notin DOMAIN db.dinosaurs
    THEN Outcome(db, "skipped", FALSE)
  ELSE IF ~HasFeedingChanged(db, e.dinosaur_id, e.time)
    THEN Outcome(db, "skipped", FALSE)
  ELSE Outcome([db EXCEPT !.dinosaurs = UpsertFeeding(@, e)], "applied", FALSE)

ProcessDinoFed(db, e) ==
  IF ~Truthy(e.dinosaur_id)
    THEN Outcome(db, "skipped", FALSE)
  ELSE IF ~HasFeedingChanged(db, e.dinosaur_id, e.time)
    THEN Outcome(db, "skipped", FALSE)
  ELSE Outcome([db EXCEPT !.dinosaurs = UpsertFeeding(@, e)], "applied", FALSE)

\* Variant: only the maintenance record is written, not the zone
ProcessMaintenancePerformed_RecordOnly(db, e) ==
  IF e.location = NullText
    THEN Outcome(db, "error", TRUE)
  ELSE IF ~HasMaintenanceChanged(db, e.location, e.time)
    THEN Outcome(db, "skipped", FALSE)
  ELSE Outcome([db EXCEPT
                  !.maintenanceRecords = UpsertTimestamp(@, e.location, e.time)],
               "applied", FALSE)

\* Variant: an event without a location is dropped without an error
ProcessMaintenancePerformed_DropSilently(db, e) ==
  IF e.location = NullText
    THEN Outcome(db, "skipped", FALSE)
  ELSE IF ~HasMaintenanceChanged(db, e.location, e.time)
    THEN Outcome(db, "skipped", FALSE)
  ELSE Outcome([db EXCEPT
                  !.maintenanceRecords = UpsertTimestamp(@, e.location, e.time),
                  !.zones = UpsertTimestamp(@, e.location, e.time)],
               "applied", FALSE)

ProcessMaintenancePerformed(db, e) ==
  IF e.location = NullText   \* zone_id is NOT NULL: nothing is written
    THEN Outcome(db, "error", TRUE)
  ELSE IF ~HasMaintenanceChanged(db, e.location, e.time)
    THEN Outcome(db, "skipped", FALSE)
  ELSE Outcome([db EXCEPT
                  !.maintenanceRecords = UpsertTimestamp(@, e.location, e.time),
                  !.zones = UpsertTimestamp(@, e.location, e.time)],
               "applied", FALSE)

\* Variant: an unknown kind is an error
ProcessEvent_ThrowOnUnknown(db, e) ==
  CASE e.kind = "dino_added" -> ProcessDinoAdded(db, e)
    [] e.kind = "dino_removed" -> ProcessDinoRemoved(db, e)
    [] e.kind = "dino_location_updated" -> ProcessDinoLocationUpdated(db, e)
    [] e.kind = "dino_fed" -> ProcessDinoFed(db, e)
    [] e.kind = "maintenance_performed" -> ProcessMaintenancePerformed(db, e)
    [] OTHER -> Outcome(db, "error", TRUE)

\* processEvent: route by kind; an unknown kind is only warned about
ProcessEvent(db, e) ==
  CASE e.kind = "dino_added" -> ProcessDinoAdded(db, e)
    [] e.kind = "dino_removed" -> ProcessDinoRemoved(db, e)
    [] e.kind = "dino_location_updated" -> ProcessDinoLocationUpdated(db, e)
    [] e.kind = "dino_fed" -> ProcessDinoFed(db, e)
    [] e.kind = "maintenance_performed" -> ProcessMaintenancePerformed(db, e)
    [] OTHER -> Outcome(db, "unknown", FALSE)

-----------------------------------------------------------------------------
(* The processors before change detection was added: the same guards and   *)
(* the same INSERT ... ON CONFLICT statements, sent for every event        *)

UpsertingDinoAdded(db, e) ==
  IF e.id = NullNum   \* nudls_id is NOT NULL: the insert is rejected
    THEN Outcome(db, "error", TRUE)
  ELSE Outcome([db EXCEPT !.dinosaurs = UpsertDinoAdded(@, e)], "applied", FALSE)

UpsertingDinoLocationUpdated(db, e) ==
  IF ~Truthy(e.dinosaur_id)
    THEN Outcome(db, "skipped", FALSE)
  ELSE IF e.location = NullText \/ e.location = ""
    THEN Outcome(db, "skipped", FALSE)
  ELSE Outcome([db EXCEPT !.dinosaurs = UpsertLocation(@, e)], "applied", FALSE)

UpsertingDinoFed(db, e) ==
  IF ~Truthy(e.dinosaur_id)
    THEN Outcome(db, "skipped", FALSE)
  ELSE Outcome([db EXCEPT !.dinosaurs = UpsertFeeding(@, e)], "applied", FALSE)

\* The three kinds routed to the processors above, one event after another
RECURSIVE UpsertingProcessFrom(_, _, _)
UpsertingProcessFrom(db, events, i) ==
  IF i > Len(events) THEN db
  ELSE LET e == events[i]
           r == CASE e.kind = "dino_added" -> UpsertingDinoAdded(db, e)
                  [] e.kind = "dino_location_updated" ->
                       UpsertingDinoLocationUpdated(db, e)
                  [] e.kind = "dino_fed" -> UpsertingDinoFed(db, e)
                  [] OTHER -> Outcome(db, "unknown", FALSE)
       IN  UpsertingProcessFrom(r.db, events, i + 1)

-----------------------------------------------------------------------------

\* processEvent while the store rejects every statement: the first query of
\* a processor throws inside its try block.  processDinoAdded and
\* processMaintenancePerformed log and rethrow; processDinoRemoved,
\* processDinoLocationUpdated and processDinoFed log and return, and they
\* return before any query when their field checks fail.
ProcessEventStoreDown(db, e) ==
  CASE e.kind = "dino_added" -> Outcome(db, "unavailable", TRUE)
    [] e.kind = "dino_removed" ->
         IF ~Truthy(e.id) THEN Outcome(db, "skipped", FALSE)
                          ELSE Outcome(db, "unavailable", FALSE)
    [] e.kind = "dino_location_updated" ->
         IF ~Truthy(e.dinosaur_id) \/ e.location = NullText \/ e.location = ""
           THEN Outcome(db, "skipped", FALSE)
           ELSE Outcome(db, "unavailable", FALSE)
    [] e.kind = "dino_fed" ->
         IF ~Truthy(e.dinosaur_id) THEN Outcome(db, "skipped", FALSE)
                                   ELSE Outcome(db, "unavailable", FALSE)
    [] e.kind = "maintenance_performed" -> Outcome(db, "unavailable", TRUE)
    [] OTHER -> Outcome(db, "unknown", FALSE)

\* processEvents as a function of the tables and the batch: the loop of
\* lines 385-393 run to completion
RECURSIVE ProcessEventsFrom(_, _, _)
ProcessEventsFrom(acc, events, i) ==
  IF i > Len(events) THEN acc
  ELSE LET r == ProcessEvent(acc.db, events[i])
       IN  ProcessEventsFrom(
             [db |-> r.db,
              processed |-> IF r.threw THEN acc.processed ELSE acc.processed + 1,
              failed |-> IF r.threw THEN acc.failed + 1 ELSE acc.failed,
              errors |-> IF r.threw THEN Append(acc.errors, events[i].kind)
                                    ELSE acc.errors],
             events, i + 1)

ProcessEvents(db, events) ==
  ProcessEventsFrom([db |-> db, processed |-> 0, failed |-> 0, errors |-> <<>>],
                    events, 1)

-----------------------------------------------------------------------------
(* Safety evaluator *)

\* Variant: the query filters on the zone only
CarnivoresInZone_AnyDiet(rows, zoneId) ==
  { i \in DOMAIN rows : rows[i].currentLocation = zoneId }

CarnivoresInZone(rows, zoneId) ==
  { i \in DOMAIN rows : rows[i].currentLocation = zoneId
                          /\ rows[i].herbivore = FALSE }

\* hoursSinceFeeding < digestionPeriod, with hoursSinceFeeding the exact
\* quotient (t - lastFedTime) / HourMs
\* Variant: the boundary instant still counts as digesting (<=)
StillDigesting_Inclusive(row, t) ==
  LET digestionPeriod == IF row.digestionPeriodHours = NullNum
                            THEN 12 ELSE row.digestionPeriodHours
  IN  /\ row.lastFedTime # NullNum
      /\ t - row.lastFedTime <= digestionPeriod * HourMs

\* Variant: a carnivore without a feeding time is not looked at specially
StillDigesting_NullIsFed(row, t) ==
  LET digestionPeriod == IF row.digestionPeriodHours = NullNum
                            THEN 12 ELSE row.digestionPeriodHours
  IN  t - row.lastFedTime < digestionPeriod * HourMs

StillDigesting(row, t) ==
  LET digestionPeriod == IF row.digestionPeriodHours = NullNum
                            THEN 12 ELSE row.digestionPeriodHours
  IN  /\ row.lastFedTime # NullNum
      /\ t - row.lastFedTime < digestionPeriod * HourMs

CalculateZoneSafety(rows, zoneId, t) ==
  IF CarnivoresInZone(rows, zoneId) = {}
    THEN TRUE
    ELSE \A c \in CarnivoresInZone(rows, zoneId) : StillDigesting(rows[c], t)

\* The whole of calculateZoneSafety: the body above runs inside try, and the
\* catch block logs the error and returns false.  queryFails says whether
\* the select rejects.  The result carries what the caller observes: the
\* value returned, whether the catch block ran, whether anything was thrown.
\* Variant: the catch block answers true
CalculateZoneSafetyCaught_FailOpen(rows, zoneId, t, queryFails) ==
  IF queryFails
    THEN [safe |-> TRUE, error |-> TRUE, threw |-> FALSE]
    ELSE [safe |-> CalculateZoneSafety(rows, zoneId, t), error |-> FALSE,
          threw |-> FALSE]

CalculateZoneSafetyCaught(rows, zoneId, t, queryFails) ==
  IF queryFails
    THEN [safe |-> FALSE, error |-> TRUE, threw |-> FALSE]
    ELSE [safe |-> CalculateZoneSafety(rows, zoneId, t), error |-> FALSE,
          threw |-> FALSE]

-----------------------------------------------------------------------------
(* Batch processing: processEvents(events), one loop iteration per step.   *)
(* The events of the batch are drawn as the loop reaches them.             *)

NoVerdict == [zone |-> "none", safe |-> FALSE, error |-> FALSE,
              threw |-> FALSE]

\* isMaintenanceNeeded has not been called
NoCheck == [called |-> FALSE]

\* Concurrent processEvents runs and the state of each before it starts
Runners == {1, 2}
IdleRunner == [pc |-> "idle", event |-> NoEvent, done |-> <<>>]

\* No request has been answered
NoResponse == [status |-> 0]

\* The five kinds counted in status.eventsProcessed
EventKinds ==
  {"dino_added", "dino_removed", "dino_location_updated", "dino_fed",
   "maintenance_performed"}

\* Calls of pollNudlsFeed that get past the isRunning test, numbered in the
\* order they are made
MaxPolls == 2
PollIds == 1..MaxPolls

\* NudlsService after construction.  pollInterval is TRUE when the field
\* holds a timer handle; timers counts the interval timers registered and
\* not cleared; lastSuccessfulPoll is NullNum for null.
NewService ==
  [isRunning |-> FALSE, pollInterval |-> FALSE, timers |-> 0,
   status |-> [isRunning |-> FALSE, lastSuccessfulPoll |-> NullNum,
               consecutiveFailures |-> 0, totalEvents |-> 0,
               eventsProcessed |-> [k \in EventKinds |-> 0]]]

\* A call of pollNudlsFeed that has not been made
NoPoll ==
  [pc |-> "idle", caller |-> "none", retryCount |-> 0, waited |-> <<>>,
   events |-> <<>>, outcome |-> "none"]

\* No grid request is in progress
NoGridRequest ==
  [pc |-> "idle", unanswered |-> {}, unsafe |-> {}, hungry |-> FALSE]

Init ==
  /\ dinosaurs = <<>>
  /\ zones = <<>>
  /\ maintenanceRecords = <<>>
  /\ event = NoEvent
  /\ log = "none"
  /\ pending = 0
  /\ processed = 0
  /\ failed = 0
  /\ errors = <<>>
  /\ now = 0
  /\ verdict = NoVerdict
  /\ eventsLength = 0
  /\ maintenanceDue = NoCheck
  /\ zoneIds = <<>>
  /\ runner = [r \in Runners |-> IdleRunner]
  /\ response = NoResponse
  /\ service = NewService
  /\ polls = [p \in PollIds |-> NoPoll]
  /\ gridRequest = NoGridRequest

\* processEvents is called with a batch of n events
ProcessEventsCall(n) ==
  /\ pending = 0
  /\ pending' = n
  /\ eventsLength' = n
  /\ processed' = 0
  /\ failed' = 0
  /\ errors' = <<>>
  /\ event' = NoEvent
  /\ log' = "none"
  /\ UNCHANGED <<dinosaurs, zones, maintenanceRecords, now, verdict,
                 maintenanceDue, zoneIds,
                 runner, response,
                 service, polls, gridRequest>>

\* Variant: the loop is left at the first event that throws
Dispatch_AbortOnFailure(e) ==
  /\ pending > 0
  /\ LET r == ProcessEvent(DB, e)
     IN  /\ dinosaurs' = r.db.dinosaurs
         /\ zones' = r.db.zones
         /\ maintenanceRecords' = r.db.maintenanceRecords
         /\ log' = r.log
         /\ processed' = IF r.threw THEN processed ELSE processed + 1
         /\ failed' = IF r.threw THEN failed + 1 ELSE failed
         /\ errors' = IF r.threw THEN Append(errors, e.kind) ELSE errors
         /\ pending' = IF r.threw THEN 0 ELSE pending - 1
  /\ event' = e
  /\ UNCHANGED <<now, verdict, eventsLength, maintenanceDue, zoneIds,
                 runner, response,
                 service, polls, gridRequest>>

\* One iteration of the loop: try { processEvent; processed++ }
\* catch { failed++; errors.push }
Dispatch(e) ==
  /\ pending > 0
  /\ LET r == ProcessEvent(DB, e)
     IN  /\ dinosaurs' = r.db.dinosaurs
         /\ zones' = r.db.zones
         /\ maintenanceRecords' = r.db.maintenanceRecords
         /\ log' = r.log
         /\ processed' = IF r.threw THEN processed ELSE processed + 1
         /\ failed' = IF r.threw THEN failed + 1 ELSE failed
         /\ errors' = IF r.threw THEN Append(errors, e.kind) ELSE errors
  /\ event' = e
  /\ pending' = pending - 1
  /\ UNCHANGED <<now, verdict, eventsLength, maintenanceDue, zoneIds,
                 runner, response,
                 service, polls, gridRequest>>

DinoAdded == \E e \in DinoAddedEvents : Dispatch(e)
DinoRemoved == \E e \in DinoRemovedEvents : Dispatch(e)
DinoLocationUpdated == \E e \in DinoLocationUpdatedEvents : Dispatch(e)
DinoFed == \E e \in DinoFedEvents : Dispatch(e)
MaintenancePerformed == \E e \in MaintenancePerformedEvents : Dispatch(e)

Next ==
  \/ \E n \in 0..MaxBatch : ProcessEventsCall(n)
  \/ DinoAdded
  \/ DinoRemoved
  \/ DinoLocationUpdated
  \/ DinoFed
  \/ MaintenancePerformed

Spec == Init /\ [][Next]_vars

-----------------------------------------------------------------------------
(* Batches that mix well-formed events about one dinosaur and one zone     *)
(* with events whose fields arrived as null.                               *)

Rex == CHOOSE p \in Profiles : p.name = "Rex"

IntactEvents ==
  { [kind |-> "dino_added", id |-> 7, name |-> Rex.name,
     species |-> Rex.species, gender |-> Rex.gender,
     herbivore |-> Rex.herbivore,
     digestion_period_in_hours |-> Rex.digestion_period_in_hours,
     park_id |-> Rex.park_id],
    [kind |-> "dino_removed", id |-> 7],
    [kind |-> "dino_location_updated", dinosaur_id |-> 7, location |-> "A0",
     park_id |-> 1],
    [kind |-> "dino_fed", dinosaur_id |-> 7, time |-> 1000, park_id |-> 1],
    [kind |-> "maintenance_performed", location |-> "A0", time |-> 1000] }

\* One field of the event is null: the id, the name or the digestion
\* period of a dino_added, the id of a dino_removed, the id or the location
\* of a dino_location_updated, the id of a dino_fed, the location of a
\* maintenance_performed
MalformedEvents ==
  { [kind |-> "dino_added", id |-> i, name |-> n, species |-> Rex.species,
     gender |-> Rex.gender, herbivore |-> Rex.herbivore,
     digestion_period_in_hours |-> d, park_id |-> Rex.park_id] :
       <<i, n, d>> \in { <<NullNum, Rex.name, 12>>, <<7, NullText, 12>>,
                         <<7, Rex.name, NullNum>> } }
  \cup { [kind |-> "dino_removed", id |-> NullNum] }
  \cup { [kind |-> "dino_location_updated", dinosaur_id |-> i,
          location |-> l, park_id |-> 1] :
            <<i, l>> \in { <<NullNum, "A0">>, <<7, NullText>> } }
  \cup { [kind |-> "dino_fed", dinosaur_id |-> NullNum, time |-> 1000,
          park_id |-> 1] }
  \cup { [kind |-> "maintenance_performed", location |-> NullText,
          time |-> 1000] }

\* An event of a kind the feed does not have today
UnknownEvents == { [kind |-> "dino_hatched"] }

\* Events that name a zone outside the grid
OffGridEvents ==
  { [kind |-> "dino_location_updated", dinosaur_id |-> 7, location |-> "Z16",
     park_id |-> 1],
    [kind |-> "maintenance_performed", location |-> "Z16", time |-> 1000] }

DispatchIntact == \E e \in IntactEvents : Dispatch(e)
DispatchMalformed == \E e \in MalformedEvents : Dispatch(e)
DispatchUnknown == \E e \in UnknownEvents : Dispatch(e)
DispatchOffGrid == \E e \in OffGridEvents : Dispatch(e)

NextMalformed ==
  \/ \E n \in 0..MaxBatch : ProcessEventsCall(n)
  \/ DispatchIntact
  \/ DispatchMalformed
  \/ DispatchUnknown
  \/ DispatchOffGrid

SpecMalformed == Init /\ [][NextMalformed]_vars

\* One iteration of the loop of processEvents while the store is down
DispatchStoreDown(e) ==
  /\ pending > 0
  /\ LET r == ProcessEventStoreDown(DB, e)
     IN  /\ log' = r.log
         /\ processed' = IF r.threw THEN processed ELSE processed + 1
         /\ failed' = IF r.threw THEN failed + 1 ELSE failed
         /\ errors' = IF r.threw THEN Append(errors, e.kind) ELSE errors
  /\ event' = e
  /\ pending' = pending - 1
  /\ UNCHANGED <<dinosaurs, zones, maintenanceRecords, now, verdict,
                 eventsLength, maintenanceDue, zoneIds, runner, response,
                 service, polls, gridRequest>>

NextStoreFailure ==
  \/ \E n \in 0..MaxBatch : ProcessEventsCall(n)
  \/ DispatchIntact
  \/ \E e \in IntactEvents \cup MalformedEvents \cup UnknownEvents :
       DispatchStoreDown(e)

SpecStoreFailure == Init /\ [][NextStoreFailure]_vars

\* processMaintenancePerformed when the statement on zones is rejected: the
\* two upserts are separate statements outside a transaction, so the
\* maintenance record written by the first stays; the error is logged and
\* rethrown
ProcessMaintenancePerformedZoneFails(db, e) ==
  IF e.location = NullText
    THEN Outcome(db, "error", TRUE)
  ELSE IF ~HasMaintenanceChanged(db, e.location, e.time)
    THEN Outcome(db, "skipped", FALSE)
  ELSE Outcome([db EXCEPT
                  !.maintenanceRecords = UpsertTimestamp(@, e.location, e.time)],
               "partial", TRUE)

\* One iteration of the loop for a maintenance event whose zone statement
\* is rejected
DispatchZoneWriteFails(e) ==
  /\ pending > 0
  /\ LET r == ProcessMaintenancePerformedZoneFails(DB, e)
     IN  /\ maintenanceRecords' = r.db.maintenanceRecords
         /\ log' = r.log
         /\ processed' = IF r.threw THEN processed ELSE processed + 1
         /\ failed' = IF r.threw THEN failed + 1 ELSE failed
         /\ errors' = IF r.threw THEN Append(errors, e.kind) ELSE errors
  /\ event' = e
  /\ pending' = pending - 1
  /\ UNCHANGED <<dinosaurs, zones, now, verdict, eventsLength,
                 maintenanceDue, zoneIds, runner, response, service, polls,
                 gridRequest>>

\* Maintenance events of the feed, for two zones and two times
MaintenanceEvents == { e \in MaintenancePerformedEvents : e.location # NullText }

NextPartial ==
  \/ \E n \in 0..MaxBatch : ProcessEventsCall(n)
  \/ \E e \in MaintenanceEvents : Dispatch(e)
  \/ \E e \in MaintenanceEvents : DispatchZoneWriteFails(e)

SpecPartial == Init /\ [][NextPartial]_vars

-----------------------------------------------------------------------------
(* Concurrent runs of processEvents.  Each run awaits its statements one   *)
(* after the other; the store executes every statement atomically, and     *)
(* the statements of the runs interleave.  A step is one statement.        *)

\* Events each run may hold in its batch
MaxRunnerEvents == 2

ConcurrentEvents ==
  IntactEvents
  \cup { [kind |-> "dino_location_updated", dinosaur_id |-> 7,
          location |-> "B1", park_id |-> 1],
         [kind |-> "maintenance_performed", location |-> "A0",
          time |-> 2000] }

\* The loop of processEvents takes the next event of the batch
RunnerStart(r, e) ==
  /\ runner[r].pc = "idle"
  /\ Len(runner[r].done) < MaxRunnerEvents
  /\ runner' = [runner EXCEPT ![r] = [@ EXCEPT !.pc = "check", !.event = e]]
  /\ UNCHANGED <<dinosaurs, zones, maintenanceRecords, event, log, pending,
                 processed, failed, errors, now, verdict, eventsLength,
                 maintenanceDue, zoneIds, response,
                 service, polls, gridRequest>>

\* What the select of a processor decides: TRUE when a write follows
WriteFollows(db, e) ==
  CASE e.kind = "dino_added" -> HasDinosaurIdentityChanged(db, e)
    [] e.kind = "dino_removed" -> Truthy(e.id) /\ e.id \in DOMAIN db.dinosaurs
    [] e.kind = "dino_location_updated" ->
         /\ Truthy(e.dinosaur_id)
         /\ e.location # NullText /\ e.location # ""
         /\ HasLocationChanged(db, e.dinosaur_id, e.location)
    [] e.kind = "dino_fed" ->
         /\ Truthy(e.dinosaur_id)
         /\ HasFeedingChanged(db, e.dinosaur_id, e.time)
    [] e.kind = "maintenance_performed" ->
         HasMaintenanceChanged(db, e.location, e.time)
    [] OTHER -> FALSE

\* The run is through with its event
Finished(r) ==
  [runner EXCEPT ![r] = [pc |-> "idle", event |-> NoEvent,
                         done |-> Append(@.done, @.event)]]

\* The select statement of the processor (has...Changed, or the existence
\* check of processDinoRemoved) and the return that follows it when nothing
\* is to be written
RunnerCheck(r) ==
  /\ runner[r].pc = "check"
  /\ runner' = IF WriteFollows(DB, runner[r].event)
                 THEN [runner EXCEPT ![r] = [@ EXCEPT !.pc = "write"]]
                 ELSE Finished(r)
  /\ UNCHANGED <<dinosaurs, zones, maintenanceRecords, event, log, pending,
                 processed, failed, errors, now, verdict, eventsLength,
                 maintenanceDue, zoneIds, response,
                 service, polls, gridRequest>>

\* The first write statement of the processor: the upsert of the dinosaur,
\* the delete, or the upsert of the maintenance record
RunnerWrite(r) ==
  /\ runner[r].pc = "write"
  /\ LET e == runner[r].event
     IN  /\ dinosaurs' =
              CASE e.kind = "dino_added" -> UpsertDinoAdded(dinosaurs, e)
                [] e.kind = "dino_removed" -> DeleteDinosaur(dinosaurs, e.id)
                [] e.kind = "dino_location_updated" -> UpsertLocation(dinosaurs, e)
                [] e.kind = "dino_fed" -> UpsertFeeding(dinosaurs, e)
                [] OTHER -> dinosaurs
         /\ maintenanceRecords' =
              IF e.kind = "maintenance_performed"
                THEN UpsertTimestamp(maintenanceRecords, e.location, e.time)
                ELSE maintenanceRecords
         /\ runner' =
              IF e.kind = "maintenance_performed"
                THEN [runner EXCEPT ![r] = [@ EXCEPT !.pc = "zone"]]
                ELSE Finished(r)
  /\ UNCHANGED <<zones, event, log, pending, processed, failed, errors, now,
                 verdict, eventsLength, maintenanceDue, zoneIds, response,
                 service, polls, gridRequest>>

\* The second write statement of processMaintenancePerformed: the upsert
\* of the zone
RunnerZone(r) ==
  /\ runner[r].pc = "zone"
  /\ zones' = UpsertTimestamp(zones, runner[r].event.location,
                              runner[r].event.time)
  /\ runner' = Finished(r)
  /\ UNCHANGED <<dinosaurs, maintenanceRecords, event, log, pending,
                 processed, failed, errors, now, verdict, eventsLength,
                 maintenanceDue, zoneIds, response,
                 service, polls, gridRequest>>

NextConcurrent ==
  \E r \in Runners :
    \/ \E e \in ConcurrentEvents : RunnerStart(r, e)
    \/ RunnerCheck(r)
    \/ RunnerWrite(r)
    \/ RunnerZone(r)

SpecConcurrent == Init /\ [][NextConcurrent]_vars

-----------------------------------------------------------------------------
(* Safety evaluation as a function of the rows and the clock: the rows are *)
(* drawn from the shapes the processors can store, the clock moves through *)
(* the instants around the digestion boundaries, and a feeding recorded at *)
(* the current instant goes through processDinoFed.                        *)

\* T, T + 11h59m, T + 12h - 1ms, T + 12h, T + 12h + 1ms, T + 48h - 1ms, T + 48h
\* for the feeding time T = 1000
SafetyInstants ==
  { 1000, 1000 + 12 * HourMs - 60000, 1000 + 12 * HourMs - 1,
    1000 + 12 * HourMs, 1000 + 12 * HourMs + 1,
    1000 + 48 * HourMs - 1, 1000 + 48 * HourMs }

SafetyRows ==
  [name : {"Rex"}, species : {"Tyrannosaurus"}, gender : {"male"},
   herbivore : BOOLEAN, digestionPeriodHours : {12, 48}, parkId : {1},
   currentLocation : Locations \cup {NullText},
   lastFedTime : EventTimes \cup {NullNum}]

SafetyStores ==
  UNION { [ids -> SafetyRows] : ids \in SUBSET SafetyIds }

InitSafety ==
  /\ dinosaurs \in SafetyStores
  /\ zones = <<>>
  /\ maintenanceRecords = <<>>
  /\ event = NoEvent
  /\ log = "none"
  /\ pending = 0
  /\ processed = 0
  /\ failed = 0
  /\ errors = <<>>
  /\ now \in SafetyInstants
  /\ verdict = NoVerdict
  /\ eventsLength = 0
  /\ maintenanceDue = NoCheck
  /\ zoneIds = <<>>
  /\ runner = [r \in Runners |-> IdleRunner]
  /\ response = NoResponse
  /\ service = NewService
  /\ polls = [p \in PollIds |-> NoPoll]
  /\ gridRequest = NoGridRequest

\* Time passes
Tick ==
  /\ \E t \in SafetyInstants : t > now /\ now' = t
  /\ verdict' = NoVerdict
  /\ UNCHANGED <<dinosaurs, zones, maintenanceRecords, event, log, pending,
                 processed, failed, errors, eventsLength, maintenanceDue,
                 zoneIds,
                 runner, response,
                 service, polls, gridRequest>>

\* calculateZoneSafety(zoneId): const now = new Date()
Evaluate(zoneId) ==
  /\ verdict' = [zone |-> zoneId] @@
                CalculateZoneSafetyCaught(dinosaurs, zoneId, now, FALSE)
  /\ UNCHANGED <<dinosaurs, zones, maintenanceRecords, event, log, pending,
                 processed, failed, errors, now, eventsLength, maintenanceDue,
                 zoneIds,
                 runner, response,
                 service, polls, gridRequest>>

\* A dino_fed event stamped with the current instant is processed
FeedNow(nudlsId) ==
  /\ LET e == [kind |-> "dino_fed", dinosaur_id |-> nudlsId, time |-> now,
               park_id |-> 1]
         r == ProcessDinoFed(DB, e)
     IN  /\ dinosaurs' = r.db.dinosaurs
         /\ event' = e
         /\ log' = r.log
  /\ verdict' = NoVerdict
  /\ UNCHANGED <<zones, maintenanceRecords, pending, processed, failed,
                 errors, now, eventsLength, maintenanceDue, zoneIds,
                 runner, response,
                 service, polls, gridRequest>>

NextSafety ==
  \/ Tick
  \/ \E z \in Locations : Evaluate(z)
  \/ \E i \in SafetyIds : FeedNow(i)

SpecSafety == InitSafety /\ [][NextSafety]_vars

\* calculateZoneSafety(zoneId) while the store rejects the query
EvaluateStoreDown(zoneId) ==
  /\ verdict' = [zone |-> zoneId] @@
                CalculateZoneSafetyCaught(dinosaurs, zoneId, now, TRUE)
  /\ UNCHANGED <<dinosaurs, zones, maintenanceRecords, event, log, pending,
                 processed, failed, errors, now, eventsLength, maintenanceDue,
                 zoneIds,
                 runner, response,
                 service, polls, gridRequest>>

NextStoreDown ==
  \/ Tick
  \/ \E z \in Locations : Evaluate(z)
  \/ \E z \in Locations : EvaluateStoreDown(z)
  \/ \E i \in SafetyIds : FeedNow(i)

SpecStoreDown == InitSafety /\ [][NextStoreDown]_vars

\* Batches of every sort of event, with safety evaluations between them
NextPark ==
  \/ NextMalformed
  \/ \E z \in Locations : Evaluate(z)

SpecPark == Init /\ [][NextPark]_vars

-----------------------------------------------------------------------------
(* Maintenance rule and zone enumeration: the two pure functions of the    *)
(* library, applied to inputs drawn at each call.                          *)

\* A Date as setDate sees it: a calendar day number and the milliseconds
\* elapsed within that day.  The null argument has its own value.
NullDate == [day |-> NullNum, ms |-> NullNum]

MaintenanceCycleDays == 30

\* date.setDate(date.getDate() - n): n calendar days back, same time of day
SetDateBack(date, n) == [date EXCEPT !.day = @ - n]

\* a < b on Dates
Before(a, b) == a.day < b.day \/ (a.day = b.day /\ a.ms < b.ms)

\* Variant: a date exactly on the cut-off counts as due (<=)
IsMaintenanceNeeded_Inclusive(lastMaintenanceDate, today) ==
  IF lastMaintenanceDate = NullDate
    THEN TRUE
    ELSE LET thirtyDaysAgo == SetDateBack(today, MaintenanceCycleDays)
         IN  ~Before(thirtyDaysAgo, lastMaintenanceDate)

\* today is the value of new Date() inside the call
IsMaintenanceNeeded(lastMaintenanceDate, today) ==
  IF lastMaintenanceDate = NullDate
    THEN TRUE
    ELSE LET thirtyDaysAgo == SetDateBack(today, MaintenanceCycleDays)
         IN  Before(lastMaintenanceDate, thirtyDaysAgo)

\* "ABCDEFGHIJKLMNOPQRSTUVWXYZ".split("")
Columns ==
  <<"A", "B", "C", "D", "E", "F", "G", "H", "I", "J", "K", "L", "M",
    "N", "O", "P", "Q", "R", "S", "T", "U", "V", "W", "X", "Y", "Z">>

LastRow == 15

\* for (let row = first; row <= last; row++) zones.push(`${column}${row}`):
\* the list grows by one code per row, in the order of the rows
PushRows(zoneList, column, first, last) ==
  zoneList \o [k \in 1..(last - first + 1) |->
                column \o ToString(first + k - 1)]

\* for (const column of columns) { ... }, from the c-th column on
RECURSIVE PushColumns(_, _, _, _)
PushColumns(zoneList, c, first, last) ==
  IF c > Len(Columns)
    THEN zoneList
    ELSE PushColumns(PushRows(zoneList, Columns[c], first, last), c + 1,
                     first, last)

\* Variant: the rows are numbered from 1
GenerateAllZoneIds_RowsFromOne == PushColumns(<<>>, 1, 1, LastRow + 1)

GenerateAllZoneIds == PushColumns(<<>>, 1, 0, LastRow)

\* The calendar days on which isMaintenanceNeeded is called, the ages in
\* days of the dates it is given, and the times of day of both
CallDays == {31, 32}
DaysAgo == {0, 10, 15, 29, 30, 31}
TimesOfDay == {0, 1, 2}

IsMaintenanceNeededCall(lastMaintenanceDate, today) ==
  /\ maintenanceDue' =
       [called |-> TRUE, lastMaintenanceDate |-> lastMaintenanceDate,
        today |-> today,
        needed |-> IsMaintenanceNeeded(lastMaintenanceDate, today)]
  /\ UNCHANGED <<dinosaurs, zones, maintenanceRecords, event, log, pending,
                 processed, failed, errors, now, verdict, eventsLength,
                 zoneIds,
                 runner, response,
                 service, polls, gridRequest>>

GenerateAllZoneIdsCall ==
  /\ zoneIds' = GenerateAllZoneIds
  /\ UNCHANGED <<dinosaurs, zones, maintenanceRecords, event, log, pending,
                 processed, failed, errors, now, verdict, eventsLength,
                 maintenanceDue,
                 runner, response,
                 service, polls, gridRequest>>

NextLibrary ==
  \/ \E today \in [day : CallDays, ms : TimesOfDay] :
       \/ IsMaintenanceNeededCall(NullDate, today)
       \/ \E age \in DaysAgo, ms \in TimesOfDay :
            IsMaintenanceNeededCall([day |-> today.day - age, ms |-> ms],
                                    today)
  \/ GenerateAllZoneIdsCall

SpecLibrary == Init /\ [][NextLibrary]_vars

-----------------------------------------------------------------------------
(* Zones router: GET /api/zones/:id and GET /api/zones/grid.  A path       *)
(* parameter is a sequence of characters; a response is the status and the *)
(* fields of the body that depend on the store and the clock.              *)

\* Longest path parameter sent
MaxIdLen == 3

\* First characters and later characters of the path parameters sent
HeadChars == {"A", "z", "1", "-"}
TailChars == {"0", "1", "6", "z"}

RouteIds ==
  UNION { { <<h>> \o t : h \in HeadChars, t \in [1..n -> TailChars] } :
            n \in 0..(MaxIdLen - 1) }

\* The characters joined into one string
RECURSIVE Text(_)
Text(chars) ==
  IF chars = <<>> THEN "" ELSE Head(chars) \o Text(Tail(chars))

\* String.prototype.toUpperCase on the characters sent
ToUpperCase(chars) ==
  [k \in 1..Len(chars) |->
     CASE chars[k] = "a" -> "A"
       [] chars[k] = "z" -> "Z"
       [] OTHER -> chars[k]]

Digits == <<"0", "1", "2", "3", "4", "5", "6", "7", "8", "9">>

\* [A-Z] and \d
IsCapital(c) == \E k \in 1..26 : Columns[k] = c
IsDigit(c) == \E k \in 1..Len(Digits) : Digits[k] = c

\* /^[A-Z]\d{1,2}$/.test(zoneId)
MatchesZoneIdFormat(chars) ==
  /\ Len(chars) \in 2..3
  /\ IsCapital(chars[1])
  /\ \A k \in 2..Len(chars) : IsDigit(chars[k])

\* parseInt of a string of decimal digits
RECURSIVE ParseInt(_)
ParseInt(chars) ==
  IF chars = <<>>
    THEN 0
    ELSE 10 * ParseInt(SubSeq(chars, 1, Len(chars) - 1))
           + (CHOOSE v \in 0..9 : Digits[v + 1] = chars[Len(chars)])

\* column > 'Z' for a capital letter: its place in the alphabet against Z's
AfterZ(column) ==
  (CHOOSE k \in 1..26 : Columns[k] = column) > (CHOOSE k \in 1..26 : Columns[k] = "Z")

\* The range check of lines 219-221 passes
InRange(chars) ==
  LET column == chars[1]
      row == ParseInt(SubSeq(chars, 2, Len(chars)))
  IN  ~(AfterZ(column) \/ row > 15)

DayMs == 24 * HourMs

\* The Date of a stored timestamp as setDate sees it
DateOf(t) == [day |-> t \div DayMs, ms |-> t % DayMs]

\* zoneData?.lastMaintenanceDate || null
LastMaintenanceOf(zoneTable, zoneId) ==
  IF zoneId \in DOMAIN zoneTable /\ zoneTable[zoneId] # NullNum
    THEN DateOf(zoneTable[zoneId])
    ELSE NullDate

\* Variant: a zone in need of maintenance is reported as plain safe
ZoneStatus_Swapped(safe, needsMaintenance) ==
  IF safe
    THEN (IF needsMaintenance THEN "safe" ELSE "safe_needs_maintenance")
    ELSE "unsafe"

\* safe ? (needsMaintenance ? 'safe_needs_maintenance' : 'safe') : 'unsafe'
ZoneStatus(safe, needsMaintenance) ==
  IF safe
    THEN (IF needsMaintenance THEN "safe_needs_maintenance" ELSE "safe")
    ELSE "unsafe"

\* GET /api/zones/:id.  storeFails: the selects of the handler reject
GetZoneResponse(db, t, chars, storeFails) ==
  LET zoneId == ToUpperCase(chars)
  IN  IF ~MatchesZoneIdFormat(zoneId)
        THEN [status |-> 400, provided |-> Text(chars)]
      ELSE IF ~InRange(zoneId)
        THEN [status |-> 404, provided |-> Text(zoneId)]
      ELSE IF storeFails
        THEN [status |-> 500]
      ELSE [status |-> 200,
            id |-> Text(zoneId),
            safe |-> CalculateZoneSafetyCaught(db.dinosaurs, Text(zoneId), t,
                                               FALSE).safe,
            needsMaintenance |->
              IsMaintenanceNeeded(LastMaintenanceOf(db.zones, Text(zoneId)),
                                  DateOf(t)),
            lastMaintenanceDate |-> LastMaintenanceOf(db.zones, Text(zoneId)),
            total |-> Cardinality({ i \in DOMAIN db.dinosaurs :
                         db.dinosaurs[i].currentLocation = Text(zoneId) })]

\* The grid of the handler: 'ABCDEFGHIJKLMNOPQRSTUVWXYZ'.split('') and
\* Array.from({ length: 16 }, (_, i) => i)
GridColumns ==
  <<"A", "B", "C", "D", "E", "F", "G", "H", "I", "J", "K", "L", "M",
    "N", "O", "P", "Q", "R", "S", "T", "U", "V", "W", "X", "Y", "Z">>
GridRowCount == 16

\* One cell of the grid
GridCell(db, t, column, row) ==
  LET zoneId == column \o ToString(row)
      safe == CalculateZoneSafetyCaught(db.dinosaurs, zoneId, t, FALSE).safe
      needsMaintenance ==
        IsMaintenanceNeeded(LastMaintenanceOf(db.zones, zoneId), DateOf(t))
  IN  [id |-> zoneId, column |-> column, row |-> row, safe |-> safe,
       needsMaintenance |-> needsMaintenance,
       lastMaintenanceDate |-> LastMaintenanceOf(db.zones, zoneId),
       status |-> ZoneStatus(safe, needsMaintenance)]

\* GET /api/zones/grid.  grid[row][c] is the cell of row and of the c-th
\* column, columns counted from 1; safetyCalls lists the zone ids
\* calculateZoneSafety is called with, in the order of the calls
GetGridResponse(db, t, storeFails) ==
  IF storeFails
    THEN [status |-> 500]
    ELSE [status |-> 200,
          grid |-> [row \in 0..(GridRowCount - 1) |->
                      [c \in 1..Len(GridColumns) |->
                         GridCell(db, t, GridColumns[c], row)]],
          safetyCalls |->
            [k \in 1..(GridRowCount * Len(GridColumns)) |->
               GridColumns[((k - 1) % Len(GridColumns)) + 1]
                 \o ToString((k - 1) \div Len(GridColumns))],
          totalZones |-> Len(GridColumns) * GridRowCount]

GetZone(chars, storeFails) ==
  /\ response' = GetZoneResponse(DB, now, chars, storeFails)
  /\ UNCHANGED <<dinosaurs, zones, maintenanceRecords, event, log, pending,
                 processed, failed, errors, now, verdict, eventsLength,
                 maintenanceDue, zoneIds, runner,
                 service, polls, gridRequest>>

GetGrid(storeFails) ==
  /\ response' = GetGridResponse(DB, now, storeFails)
  /\ UNCHANGED <<dinosaurs, zones, maintenanceRecords, event, log, pending,
                 processed, failed, errors, now, verdict, eventsLength,
                 maintenanceDue, zoneIds, runner,
                 service, polls, gridRequest>>

\* The stores the router is exercised on: dinosaur 7, a carnivore, in one
\* of two zones, fed or not; zone A0 maintained or not
RouteRows ==
  [name : {"Rex"}, species : {"Tyrannosaurus"}, gender : {"male"},
   herbivore : {FALSE}, digestionPeriodHours : {12}, parkId : {1},
   currentLocation : Locations, lastFedTime : {1000, NullNum}]

InitRoutes ==
  /\ dinosaurs \in UNION { [ids -> RouteRows] : ids \in SUBSET {7} }
  /\ zones \in { <<>>, ("A0" :> 1000) }
  /\ maintenanceRecords = zones
  /\ event = NoEvent
  /\ log = "none"
  /\ pending = 0
  /\ processed = 0
  /\ failed = 0
  /\ errors = <<>>
  /\ now \in {1000, 1000 + 12 * HourMs}
  /\ verdict = NoVerdict
  /\ eventsLength = 0
  /\ maintenanceDue = NoCheck
  /\ zoneIds = <<>>
  /\ runner = [r \in Runners |-> IdleRunner]
  /\ response = NoResponse
  /\ service = NewService
  /\ polls = [p \in PollIds |-> NoPoll]
  /\ gridRequest = NoGridRequest

NextRoutes ==
  \/ \E chars \in RouteIds, storeFails \in BOOLEAN : GetZone(chars, storeFails)
  \/ \E storeFails \in BOOLEAN : GetGrid(storeFails)

SpecRoutes == InitRoutes /\ [][NextRoutes]_vars

-----------------------------------------------------------------------------
(* NudlsService: start / stop, the interval timer, and the calls of        *)
(* pollNudlsFeed, each of which awaits the fetch (with its retries) and    *)
(* then processEvents.  Code between two awaits runs without interruption. *)

maxRetries == 3
baseRetryDelay == 1000
maxRetryDelay == 30000

\* Math.min(baseRetryDelay * Math.pow(2, retryCount), maxRetryDelay)
RetryDelay(retryCount) ==
  LET delay == baseRetryDelay * 2^retryCount
  IN  IF delay < maxRetryDelay THEN delay ELSE maxRetryDelay

\* What a successful fetch may return: an empty feed, or a feeding of
\* dinosaur 7 followed by a maintenance event without a location, which
\* fails
FeedBatches ==
  { <<>>,
    << [kind |-> "dino_fed", dinosaur_id |-> 7, time |-> 1000, park_id |-> 1],
       [kind |-> "maintenance_performed", location |-> NullText,
        time |-> 1000] >> }

\* Variant: start() registers its timer without looking at isRunning
StartService_NoGuard(s) ==
  [s EXCEPT !.isRunning = TRUE, !.status.isRunning = TRUE,
            !.pollInterval = TRUE, !.timers = @ + 1]

\* start(), up to the call of pollNudlsFeed, and the setInterval after it
StartService(s) ==
  IF s.isRunning THEN s
  ELSE [s EXCEPT !.isRunning = TRUE, !.status.isRunning = TRUE,
                 !.pollInterval = TRUE, !.timers = @ + 1]

\* stop()
StopService(s) ==
  IF ~s.isRunning THEN s
  ELSE [s EXCEPT !.isRunning = FALSE, !.status.isRunning = FALSE,
                 !.pollInterval = FALSE,
                 !.timers = IF s.pollInterval THEN @ - 1 ELSE @]

\* Some call of pollNudlsFeed is still to be made
HasFreePoll(ps) == \E p \in PollIds : ps[p].pc = "idle"

NextPoll(ps) ==
  CHOOSE p \in PollIds :
    ps[p].pc = "idle" /\ \A q \in PollIds : q < p => ps[q].pc # "idle"

\* pollNudlsFeed up to its first await: return at once when the service is
\* not running, else call fetchNudlsFeed(), which sends the first request
EnterPoll(s, ps, caller) ==
  IF ~s.isRunning THEN ps
  ELSE [ps EXCEPT ![NextPoll(ps)] =
          [NoPoll EXCEPT !.pc = "fetching", !.caller = caller]]

\* Variant: the failure counter is left as it is
StatusAfterSuccess_KeepFailures(status, batch, t) ==
  [status EXCEPT
     !.lastSuccessfulPoll = t,
     !.totalEvents = @ + Len(batch),
     !.eventsProcessed =
        [k \in EventKinds |->
           @[k] + Cardinality({ i \in 1..Len(batch) : batch[i].kind = k })]]

\* lastSuccessfulPoll = new Date(); consecutiveFailures = 0;
\* totalEvents += events.length; eventsProcessed[event.kind]++ for each
\* event (for the empty feed only the first two assignments are made, and
\* the other two would change nothing)
StatusAfterSuccess(status, batch, t) ==
  [status EXCEPT
     !.lastSuccessfulPoll = t,
     !.consecutiveFailures = 0,
     !.totalEvents = @ + Len(batch),
     !.eventsProcessed =
        [k \in EventKinds |->
           @[k] + Cardinality({ i \in 1..Len(batch) : batch[i].kind = k })]]

ServiceStart ==
  /\ service.isRunning \/ HasFreePoll(polls)
  /\ service' = StartService(service)
  /\ polls' = IF service.isRunning THEN polls
              ELSE EnterPoll(StartService(service), polls, "start")
  /\ UNCHANGED <<dinosaurs, zones, maintenanceRecords, event, log, pending,
                 processed, failed, errors, now, verdict, eventsLength,
                 maintenanceDue, zoneIds, runner, response, gridRequest>>

ServiceStop ==
  /\ service' = StopService(service)
  /\ UNCHANGED <<dinosaurs, zones, maintenanceRecords, event, log, pending,
                 processed, failed, errors, now, verdict, eventsLength,
                 maintenanceDue, zoneIds, runner, response, polls,
                 gridRequest>>

\* The callback of setInterval
IntervalTick ==
  /\ service.timers > 0
  /\ HasFreePoll(polls)
  /\ polls' = EnterPoll(service, polls, "setInterval")
  /\ UNCHANGED <<dinosaurs, zones, maintenanceRecords, event, log, pending,
                 processed, failed, errors, now, verdict, eventsLength,
                 maintenanceDue, zoneIds, runner, response, service,
                 gridRequest>>

\* pollOnce()
PollOnce ==
  /\ service.isRunning => HasFreePoll(polls)
  /\ polls' = EnterPoll(service, polls, "pollOnce")
  /\ UNCHANGED <<dinosaurs, zones, maintenanceRecords, event, log, pending,
                 processed, failed, errors, now, verdict, eventsLength,
                 maintenanceDue, zoneIds, runner, response, service,
                 gridRequest>>

\* Variant: the attempt that follows a failure is not bounded
FetchFails_RetryForever(p) ==
  /\ polls[p].pc = "fetching"
  /\ polls' = [polls EXCEPT
                 ![p].pc = "delaying",
                 ![p].retryCount = IF @ < maxRetries THEN @ ELSE maxRetries,
                 ![p].waited = IF Len(@) < maxRetries
                                 THEN Append(@, RetryDelay(polls[p].retryCount))
                                 ELSE @]
  /\ UNCHANGED <<dinosaurs, zones, maintenanceRecords, event, log, pending,
                 processed, failed, errors, now, verdict, eventsLength,
                 maintenanceDue, zoneIds, runner, response, service,
                 gridRequest>>

\* An attempt of fetchNudlsFeed throws (network error, abort after 10 s,
\* status not ok, body not an array): wait and retry while
\* retryCount < maxRetries, else throw to pollNudlsFeed, whose catch block
\* counts the failure
FetchFails(p) ==
  /\ polls[p].pc = "fetching"
  /\ IF polls[p].retryCount < maxRetries
       THEN /\ polls' = [polls EXCEPT
                           ![p].pc = "delaying",
                           ![p].waited =
                              Append(@, RetryDelay(polls[p].retryCount))]
            /\ UNCHANGED service
       ELSE /\ polls' = [polls EXCEPT ![p].pc = "done",
                                      ![p].outcome = "error"]
            /\ service' = [service EXCEPT !.status.consecutiveFailures = @ + 1]
  /\ UNCHANGED <<dinosaurs, zones, maintenanceRecords, event, log, pending,
                 processed, failed, errors, now, verdict, eventsLength,
                 maintenanceDue, zoneIds, runner, response, gridRequest>>

\* The delay is over: return this.fetchNudlsFeed(retryCount + 1)
DelayElapses(p) ==
  /\ polls[p].pc = "delaying"
  /\ polls' = [polls EXCEPT ![p].pc = "fetching", ![p].retryCount = @ + 1]
  /\ UNCHANGED <<dinosaurs, zones, maintenanceRecords, event, log, pending,
                 processed, failed, errors, now, verdict, eventsLength,
                 maintenanceDue, zoneIds, runner, response, service,
                 gridRequest>>

\* An attempt returns the feed: an empty feed ends the poll, any other is
\* handed to processEvents
FetchSucceeds(p, batch) ==
  /\ polls[p].pc = "fetching"
  /\ IF batch = <<>>
       THEN /\ polls' = [polls EXCEPT ![p].pc = "done",
                                      ![p].outcome = "data"]
            /\ service' = [service EXCEPT
                             !.status = StatusAfterSuccess(@, batch, now)]
       ELSE /\ polls' = [polls EXCEPT ![p].pc = "processing",
                                      ![p].outcome = "data",
                                      ![p].events = batch]
            /\ UNCHANGED service
  /\ UNCHANGED <<dinosaurs, zones, maintenanceRecords, event, log, pending,
                 processed, failed, errors, now, verdict, eventsLength,
                 maintenanceDue, zoneIds, runner, response, gridRequest>>

\* processEvents has returned for the batch of the poll, and the
\* statistics are updated
ProcessBatch(p) ==
  /\ polls[p].pc = "processing"
  /\ LET r == ProcessEvents(DB, polls[p].events)
     IN  /\ dinosaurs' = r.db.dinosaurs
         /\ zones' = r.db.zones
         /\ maintenanceRecords' = r.db.maintenanceRecords
         /\ processed' = r.processed
         /\ failed' = r.failed
         /\ errors' = r.errors
  /\ eventsLength' = Len(polls[p].events)
  /\ polls' = [polls EXCEPT ![p].pc = "done"]
  /\ service' = [service EXCEPT
                   !.status = StatusAfterSuccess(@, polls[p].events, now)]
  /\ UNCHANGED <<event, log, pending, now, verdict, maintenanceDue, zoneIds,
                 runner, response, gridRequest>>

\* resetStatistics()
ResetStatistics ==
  /\ service' = [service EXCEPT
                   !.status.totalEvents = 0,
                   !.status.consecutiveFailures = 0,
                   !.status.eventsProcessed = [k \in EventKinds |-> 0]]
  /\ UNCHANGED <<dinosaurs, zones, maintenanceRecords, event, log, pending,
                 processed, failed, errors, now, verdict, eventsLength,
                 maintenanceDue, zoneIds, runner, response, polls,
                 gridRequest>>

\* The steps a poll takes once it has been entered
PollStep(p) ==
  \/ \E batch \in FeedBatches : FetchSucceeds(p, batch)
  \/ FetchFails(p)
  \/ DelayElapses(p)
  \/ ProcessBatch(p)

NextService ==
  \/ ServiceStart
  \/ ServiceStop
  \/ IntervalTick
  \/ PollOnce
  \/ \E p \in PollIds : PollStep(p)
  \/ ResetStatistics

SpecService == Init /\ [][NextService]_vars

\* A service that is started once and then polled by pollOnce()
NextFetch ==
  \/ ServiceStart
  \/ PollOnce
  \/ \E p \in PollIds : PollStep(p)

\* Every request is answered or aborted after 10 s, every delay elapses and
\* every statement sent to the store returns
SpecFetch ==
  Init /\ [][NextFetch]_vars /\ \A p \in PollIds : WF_vars(PollStep(p))

-----------------------------------------------------------------------------
(* GET /grid while processEvents is running.  The handler starts one       *)
(* calculateZoneSafety per cell under Promise.all; each is a query of its  *)
(* own, answered from the rows the store holds when it is executed, and    *)
(* statements of processEvents can be executed between two of them.        *)

\* The cells whose queries are followed one by one: the zones dinosaurs are
\* located in.  No dinosaur is ever in another zone, so the other cells
\* are safe whenever their queries are executed.
GridZones == Locations

\* A carnivore that was never fed is located in some zone
HungryCarnivoreLocated(rows) ==
  \E i \in DOMAIN rows :
    /\ rows[i].herbivore = FALSE
    /\ rows[i].lastFedTime = NullNum
    /\ rows[i].currentLocation \in GridZones

\* The handler is entered and sends the queries
GridStart ==
  /\ gridRequest.pc # "querying"
  /\ gridRequest' = [pc |-> "querying", unanswered |-> GridZones,
                     unsafe |-> {},
                     hungry |-> HungryCarnivoreLocated(dinosaurs)]
  /\ UNCHANGED <<dinosaurs, zones, maintenanceRecords, event, log, pending,
                 processed, failed, errors, now, verdict, eventsLength,
                 maintenanceDue, zoneIds, runner, response, service, polls>>

\* The query of one cell is executed; with the last one Promise.all
\* resolves and the grid is sent
GridQuery(zoneId) ==
  /\ gridRequest.pc = "querying"
  /\ zoneId \in gridRequest.unanswered
  /\ gridRequest' =
       [gridRequest EXCEPT
          !.unanswered = @ \ {zoneId},
          !.unsafe = IF CalculateZoneSafetyCaught(dinosaurs, zoneId, now,
                                                  FALSE).safe
                       THEN @ ELSE @ \cup {zoneId},
          !.pc = IF gridRequest.unanswered = {zoneId}
                   THEN "answered" ELSE "querying"]
  /\ UNCHANGED <<dinosaurs, zones, maintenanceRecords, event, log, pending,
                 processed, failed, errors, now, verdict, eventsLength,
                 maintenanceDue, zoneIds, runner, response, service, polls>>

\* One iteration of the loop of processEvents; while a grid request is
\* waiting for its queries, it is noted whether a hungry carnivore is
\* still located in some zone
DispatchDuringGrid(e) ==
  /\ pending > 0
  /\ LET r == ProcessEvent(DB, e)
     IN  /\ dinosaurs' = r.db.dinosaurs
         /\ zones' = r.db.zones
         /\ maintenanceRecords' = r.db.maintenanceRecords
         /\ log' = r.log
         /\ processed' = IF r.threw THEN processed ELSE processed + 1
         /\ failed' = IF r.threw THEN failed + 1 ELSE failed
         /\ errors' = IF r.threw THEN Append(errors, e.kind) ELSE errors
         /\ gridRequest' =
              IF gridRequest.pc = "querying"
                THEN [gridRequest EXCEPT
                        !.hungry = @ /\ HungryCarnivoreLocated(r.db.dinosaurs)]
                ELSE gridRequest
  /\ event' = e
  /\ pending' = pending - 1
  /\ UNCHANGED <<now, verdict, eventsLength, maintenanceDue, zoneIds,
                 runner, response, service, polls>>

NextGrid ==
  \/ \E n \in 0..MaxBatch : ProcessEventsCall(n)
  \/ \E e \in ConcurrentEvents : DispatchDuringGrid(e)
  \/ GridStart
  \/ \E z \in GridZones : GridQuery(z)

SpecGrid == Init /\ [][NextGrid]_vars

-----------------------------------------------------------------------------
(* Properties of the event processors *)

\* The stored state of one agent: its row, or nothing if it is not stored
AgentOf(rows, nudlsId) == [i \in DOMAIN rows \cap {nudlsId} |-> rows[i]]

RECURSIVE ApplyTimes(_, _, _)
ApplyTimes(db, e, n) ==
  IF n = 0 THEN db ELSE ApplyTimes(ProcessEvent(db, e).db, e, n - 1)

\* The step just taken dispatched an event of the given kind
Dispatched(kind) == pending' = pending - 1 /\ event'.kind = kind

\* C1: applying the same dino_added event N >= 1 times in succession to any
\* store leaves the agent (identity fields, currentLocation, lastFedTime) as
\* one application does.
C1_AddedIdempotent ==
  \A e \in DinoAddedEvents : \A n \in 1..MaxRepeat :
    AgentOf(ApplyTimes(DB, e, n).dinosaurs, e.id)
      = AgentOf(ApplyTimes(DB, e, 1).dinosaurs, e.id)

\* A dino_added event was dispatched to a store that already held exactly
\* its identity (a repeated application), for an agent with operational data
C1_Witness ==
  /\ event.kind = "dino_added"
  /\ log = "skipped"
  /\ event.id \in DOMAIN dinosaurs
  /\ dinosaurs[event.id].lastFedTime # NullNum

\* C2: re-applying a copy of an already applied event at any later position
\* of a sequence leaves the final store as the sequence without the copy
\* does (sequences of two events, the copy placed after either of them).
C2_DuplicateAnywhere ==
  \A e1 \in NudlsEvents : \A e2 \in NudlsEvents :
    /\ ProcessEvents(DB, <<e1, e1, e2>>).db = ProcessEvents(DB, <<e1, e2>>).db
    /\ ProcessEvents(DB, <<e1, e2, e1>>).db = ProcessEvents(DB, <<e1, e2>>).db
    /\ ProcessEvents(DB, <<e1, e2, e2>>).db = ProcessEvents(DB, <<e1, e2>>).db

\* C3: dino_fed then dino_location_updated for the same id, or the reverse
\* order, from any store (agent absent or present) give the same agent.
C3_FedLocationCommute ==
  \A f \in DinoFedEvents : \A l \in DinoLocationUpdatedEvents :
    f.dinosaur_id = l.dinosaur_id =>
      AgentOf(ProcessEvents(DB, <<f, l>>).db.dinosaurs, f.dinosaur_id)
        = AgentOf(ProcessEvents(DB, <<l, f>>).db.dinosaurs, f.dinosaur_id)

\* C4: a dino_added event dispatched for an agent that is already stored
\* (a shell included) sets the identity fields to the event's and leaves the
\* agent's currentLocation and lastFedTime as they were.
C4_AddedKeepsOperational ==
  [][ (Dispatched("dino_added") /\ event'.id \in DOMAIN dinosaurs) =>
        /\ event'.id \in DOMAIN dinosaurs'
        /\ dinosaurs'[event'.id].currentLocation
             = dinosaurs[event'.id].currentLocation
        /\ dinosaurs'[event'.id].lastFedTime = dinosaurs[event'.id].lastFedTime
        /\ dinosaurs'[event'.id].name = event'.name
        /\ dinosaurs'[event'.id].species = event'.species
        /\ dinosaurs'[event'.id].gender = event'.gender
        /\ dinosaurs'[event'.id].herbivore = event'.herbivore
        /\ dinosaurs'[event'.id].digestionPeriodHours
             = event'.digestion_period_in_hours
        /\ dinosaurs'[event'.id].parkId = event'.park_id ]_vars

\* A dino_added event was applied to an agent that had a zone and a feeding
\* time (a new row has neither), and both are still there
C4_Witness ==
  /\ event.kind = "dino_added"
  /\ log = "applied"
  /\ event.id \in DOMAIN dinosaurs
  /\ dinosaurs[event.id].currentLocation # NullText
  /\ dinosaurs[event.id].lastFedTime # NullNum

\* The dino_added event of the scenario: id 7, carnivore, digestion 12
AddedCarnivore7 ==
  CHOOSE e \in DinoAddedEvents :
    e.id = 7 /\ e.herbivore = FALSE /\ e.digestion_period_in_hours = 12

\* C5: the batch [dino_fed(7, T), dino_added(7, carnivore, 12)] applied to
\* a store without agent 7 leaves agent 7 stored as a carnivore with
\* digestion period 12, lastFedTime T and no location, and counts both
\* events as processed.
C5_FedBeforeAdded ==
  7 \notin DOMAIN dinosaurs =>
    \A f \in DinoFedEvents :
      f.dinosaur_id = 7 =>
        LET r == ProcessEvents(DB, <<f, AddedCarnivore7>>)
        IN  /\ r.processed = 2
            /\ r.failed = 0
            /\ r.errors = <<>>
            /\ 7 \in DOMAIN r.db.dinosaurs
            /\ r.db.dinosaurs[7].herbivore = FALSE
            /\ r.db.dinosaurs[7].digestionPeriodHours = 12
            /\ r.db.dinosaurs[7].lastFedTime = f.time
            /\ r.db.dinosaurs[7].currentLocation = NullText

\* A batch of two events has returned with both counted as processed, the
\* second being the dino_added of the scenario, applied to a row that a
\* feeding had created
C5_Witness ==
  /\ pending = 0
  /\ processed = 2
  /\ failed = 0
  /\ event = AddedCarnivore7
  /\ log = "applied"
  /\ dinosaurs[7].lastFedTime # NullNum
  /\ dinosaurs[7].currentLocation = NullText

\* Both rows agree on every column but the named one
SameBut(field, before, after) ==
  \A c \in DOMAIN before : c # field => after[c] = before[c]

\* C6: for an agent that is stored, a dispatched dino_location_updated
\* changes at most currentLocation and a dispatched dino_fed at most
\* lastFedTime of that agent; no other agent, zone or maintenance record
\* changes.
C6_OperationalFrame ==
  [][ /\ (Dispatched("dino_location_updated")
            /\ event'.dinosaur_id \in DOMAIN dinosaurs) =>
          /\ DOMAIN dinosaurs' = DOMAIN dinosaurs
          /\ SameBut("currentLocation", dinosaurs[event'.dinosaur_id],
                     dinosaurs'[event'.dinosaur_id])
          /\ \A i \in DOMAIN dinosaurs \ {event'.dinosaur_id} :
               dinosaurs'[i] = dinosaurs[i]
          /\ zones' = zones
          /\ maintenanceRecords' = maintenanceRecords
      /\ (Dispatched("dino_fed")
            /\ event'.dinosaur_id \in DOMAIN dinosaurs) =>
          /\ DOMAIN dinosaurs' = DOMAIN dinosaurs
          /\ SameBut("lastFedTime", dinosaurs[event'.dinosaur_id],
                     dinosaurs'[event'.dinosaur_id])
          /\ \A i \in DOMAIN dinosaurs \ {event'.dinosaur_id} :
               dinosaurs'[i] = dinosaurs[i]
          /\ zones' = zones
          /\ maintenanceRecords' = maintenanceRecords ]_vars

\* A dino_location_updated carrying another park id was applied to an agent
\* that had its identity and a feeding time, next to another agent and a
\* maintained zone
C6_Witness ==
  /\ event.kind = "dino_location_updated"
  /\ log = "applied"
  /\ dinosaurs[event.dinosaur_id].name # NullText
  /\ dinosaurs[event.dinosaur_id].lastFedTime # NullNum
  /\ dinosaurs[event.dinosaur_id].parkId # event.park_id
  /\ DOMAIN dinosaurs # {event.dinosaur_id}
  /\ DOMAIN zones # {}

Later(t1, t2) == IF t1 > t2 THEN t1 ELSE t2

\* C7: two dino_fed events for the same id with different timestamps,
\* dispatched one after the other in either order, leave lastFedTime at the
\* later of the two timestamps.
C7_LatestFeedingWins ==
  [][ (Dispatched("dino_fed") /\ event.kind = "dino_fed"
         /\ event'.dinosaur_id = event.dinosaur_id
         /\ Truthy(event'.dinosaur_id)
         /\ event'.time # event.time) =>
        /\ event'.dinosaur_id \in DOMAIN dinosaurs'
        /\ dinosaurs'[event'.dinosaur_id].lastFedTime
             = Later(event.time, event'.time) ]_vars

\* C8: after successfully applied maintenance_performed events for a zone,
\* in any arrival order, the zone's maintenance record and its
\* lastMaintenanceDate hold the greatest timestamp among them: each applied
\* event leaves the later of the stored timestamp and its own.
C8_LatestMaintenanceWins ==
  [][ (Dispatched("maintenance_performed") /\ log' # "error") =>
        LET z == event'.location
            latest == IF z \in DOMAIN maintenanceRecords
                        THEN Later(maintenanceRecords[z], event'.time)
                        ELSE event'.time
        IN  /\ z \in DOMAIN maintenanceRecords' /\ maintenanceRecords'[z] = latest
            /\ z \in DOMAIN zones' /\ zones'[z] = latest ]_vars

-----------------------------------------------------------------------------
(* Properties of the safety evaluator *)

\* The agents located in a zone, by diet
HerbivoresIn(zoneId) ==
  { i \in DOMAIN dinosaurs : dinosaurs[i].currentLocation = zoneId
                               /\ dinosaurs[i].herbivore }
CarnivoresIn(zoneId) ==
  { i \in DOMAIN dinosaurs : dinosaurs[i].currentLocation = zoneId
                               /\ ~dinosaurs[i].herbivore }

\* C9: calculateZoneSafety returns true for every zone that holds no
\* carnivore, whatever herbivores are in it and whatever is in other zones.
C9_NoCarnivoreSafe ==
  (verdict.zone # "none" /\ CarnivoresIn(verdict.zone) = {}) => verdict.safe

\* A zone holding two herbivores, one never fed and one fed longer ago than
\* its digestion period, was evaluated safe while a never-fed carnivore was
\* nowhere in the zone
C9_Witness ==
  /\ verdict.zone # "none"
  /\ verdict.safe
  /\ CarnivoresIn(verdict.zone) = {}
  /\ \E h \in HerbivoresIn(verdict.zone) : dinosaurs[h].lastFedTime = NullNum
  /\ \E h \in HerbivoresIn(verdict.zone) :
       /\ dinosaurs[h].lastFedTime # NullNum
       /\ now - dinosaurs[h].lastFedTime
            > dinosaurs[h].digestionPeriodHours * HourMs

\* Whole hours elapsed since a feeding: the hours since feeding are below a
\* whole number d of hours exactly when the whole hours elapsed are
WholeHoursSince(fedTime) == (now - fedTime) \div HourMs

\* C10: a zone holding carnivores is evaluated safe iff every carnivore in
\* it has a feeding time and the hours since it are strictly fewer than the
\* carnivore's digestionPeriodHours; a carnivore fed at T with period 12
\* leaves its zone safe at T + 11h59m (no other carnivore there) and makes
\* it unsafe at T + 12h and at every later instant while T stays its last
\* feeding.
C10_DigestionBoundary ==
  (verdict.zone # "none" /\ CarnivoresIn(verdict.zone) # {}) =>
    /\ verdict.safe <=>
         \A c \in CarnivoresIn(verdict.zone) :
           /\ dinosaurs[c].lastFedTime # NullNum
           /\ WholeHoursSince(dinosaurs[c].lastFedTime)
                < dinosaurs[c].digestionPeriodHours
    /\ \A c \in CarnivoresIn(verdict.zone) :
         (dinosaurs[c].lastFedTime # NullNum
            /\ dinosaurs[c].digestionPeriodHours = 12) =>
           /\ now >= dinosaurs[c].lastFedTime + 12 * HourMs => ~verdict.safe
           /\ (now = dinosaurs[c].lastFedTime + 12 * HourMs - 60000
                /\ CarnivoresIn(verdict.zone) = {c}) => verdict.safe

\* The zone of a carnivore with period 12 was evaluated unsafe exactly 12
\* hours after its feeding, next to a carnivore with period 48 that was
\* still digesting
C10_Witness ==
  /\ verdict.zone # "none"
  /\ ~verdict.safe
  /\ \E c \in CarnivoresIn(verdict.zone) :
       /\ dinosaurs[c].digestionPeriodHours = 12
       /\ dinosaurs[c].lastFedTime # NullNum
       /\ now = dinosaurs[c].lastFedTime + 12 * HourMs
  /\ \E c \in CarnivoresIn(verdict.zone) :
       /\ dinosaurs[c].digestionPeriodHours = 48
       /\ dinosaurs[c].lastFedTime # NullNum
       /\ now < dinosaurs[c].lastFedTime + 48 * HourMs

\* C11: a zone holding at least one carnivore that has no feeding time is
\* evaluated unsafe, however recently the other carnivores in it were fed.
C11_NeverFedCarnivoreUnsafe ==
  (verdict.zone # "none"
     /\ \E c \in CarnivoresIn(verdict.zone) : dinosaurs[c].lastFedTime = NullNum)
  => ~verdict.safe

\* A zone was evaluated unsafe while it held a never-fed carnivore next to a
\* carnivore fed at this very instant
C11_Witness ==
  /\ verdict.zone # "none"
  /\ ~verdict.safe
  /\ \E c \in CarnivoresIn(verdict.zone) : dinosaurs[c].lastFedTime = NullNum
  /\ \E c \in CarnivoresIn(verdict.zone) : dinosaurs[c].lastFedTime = now

\* C12: when the store query fails, calculateZoneSafety returns false: it
\* never returns true and never lets the error reach its caller, whatever
\* the rows and the clock are.
C12_StoreFailureUnsafe ==
  /\ ~verdict.threw
  /\ verdict.error => ~verdict.safe

\* The query failed for a zone that holds no carnivore, which is evaluated
\* safe whenever the query succeeds
C12_Witness ==
  /\ verdict.zone # "none"
  /\ verdict.error
  /\ ~verdict.safe
  /\ CarnivoresIn(verdict.zone) = {}
  /\ CalculateZoneSafety(dinosaurs, verdict.zone, now)

\* Whole calendar days between the date given and the day of the call
DaysSince == maintenanceDue.today.day - maintenanceDue.lastMaintenanceDate.day

\* C13 as stated: isMaintenanceNeeded(null) is true, and for a date it is
\* true iff now - lastMaintenanceDate is at least 30 days, so true at
\* exactly 30 days.
C13_DueFromThirtyDays ==
  maintenanceDue.called =>
    IF maintenanceDue.lastMaintenanceDate = NullDate
      THEN maintenanceDue.needed
      ELSE maintenanceDue.needed <=>
             \/ DaysSince > 30
             \/ /\ DaysSince = 30
                /\ maintenanceDue.today.ms >= maintenanceDue.lastMaintenanceDate.ms

\* C13: isMaintenanceNeeded(null) is true, and for a date it is true iff now
\* - lastMaintenanceDate is strictly more than 30 days: false at 10, 15 and
\* 29 days and at exactly 30 days, true one millisecond past 30 days and at
\* 31 days.
C13_DueAfterThirtyDays ==
  maintenanceDue.called =>
    IF maintenanceDue.lastMaintenanceDate = NullDate
      THEN maintenanceDue.needed
      ELSE /\ maintenanceDue.needed <=>
                \/ DaysSince > 30
                \/ /\ DaysSince = 30
                   /\ maintenanceDue.today.ms
                        > maintenanceDue.lastMaintenanceDate.ms
           /\ (DaysSince \in {10, 15, 29}
                 /\ maintenanceDue.today.ms = maintenanceDue.lastMaintenanceDate.ms)
                => ~maintenanceDue.needed
           /\ (DaysSince = 30
                 /\ maintenanceDue.today.ms = maintenanceDue.lastMaintenanceDate.ms)
                => ~maintenanceDue.needed
           /\ (DaysSince = 30
                 /\ maintenanceDue.today.ms
                      = maintenanceDue.lastMaintenanceDate.ms + 1)
                => maintenanceDue.needed
           /\ (DaysSince = 31
                 /\ maintenanceDue.today.ms = maintenanceDue.lastMaintenanceDate.ms)
                => maintenanceDue.needed

\* isMaintenanceNeeded answered false for a date exactly 30 days before the
\* instant of the call
C13_Witness ==
  /\ maintenanceDue.called
  /\ maintenanceDue.lastMaintenanceDate # NullDate
  /\ DaysSince = 30
  /\ maintenanceDue.today.ms = maintenanceDue.lastMaintenanceDate.ms
  /\ ~maintenanceDue.needed

\* The codes of a list of zone ids
CodesOf(zoneList) == { zoneList[k] : k \in 1..Len(zoneList) }

\* C14: generateAllZoneIds returns exactly 416 pairwise distinct codes,
\* every letter A..Z combined with every row 0..15 and nothing else: A0 and
\* Z15 are in it, no code has a row above 15.
C14_AllZoneCodes ==
  zoneIds # <<>> =>
    /\ Len(zoneIds) = 416
    /\ Cardinality(CodesOf(zoneIds)) = 416
    /\ "A0" \in CodesOf(zoneIds)
    /\ "Z15" \in CodesOf(zoneIds)
    /\ "A16" \notin CodesOf(zoneIds)
    /\ "Z16" \notin CodesOf(zoneIds)
    /\ \A letter \in {"A", "B", "C", "D", "E", "F", "G", "H", "I", "J", "K",
                       "L", "M", "N", "O", "P", "Q", "R", "S", "T", "U", "V",
                       "W", "X", "Y", "Z"} :
         \A row \in 0..15 : letter \o ToString(row) \in CodesOf(zoneIds)

\* generateAllZoneIds was called and its list runs from A0 to Z15
C14_Witness ==
  /\ zoneIds # <<>>
  /\ zoneIds[1] = "A0"
  /\ zoneIds[16] = "A15"
  /\ zoneIds[17] = "B0"
  /\ zoneIds[Len(zoneIds)] = "Z15"

\* C15: processEvents handles the events of the batch one at a time until
\* none is left, whether or not an event failed: each iteration counts its
\* event as processed or as failed, never both, and a failure appends
\* exactly one entry to errors; nothing else moves the counters within a
\* batch, so on return processed + failed is the number of events and errors
\* holds one entry per failed event, in order of failure.
C15_BatchAccounting ==
  [][ /\ processed' + failed' + pending' = eventsLength'
      /\ Len(errors') = failed'
      /\ pending' # pending =>
            \/ /\ pending = 0
               /\ processed' = 0 /\ failed' = 0 /\ errors' = <<>>
            \/ /\ pending' = pending - 1
               /\ eventsLength' = eventsLength
               /\ \/ /\ processed' = processed + 1
                     /\ failed' = failed
                     /\ errors' = errors
                  \/ /\ processed' = processed
                     /\ failed' = failed + 1
                     /\ errors' = Append(errors, event'.kind)
      /\ pending' = pending =>
            \/ UNCHANGED <<processed, failed, errors, eventsLength>>
            \/ pending = 0 /\ eventsLength' = 0
    ]_vars

\* A batch of two events returned after its first event failed and its
\* second event was applied
C15_Witness ==
  /\ eventsLength = 2
  /\ pending = 0
  /\ processed = 1
  /\ failed = 1
  /\ Len(errors) = 1
  /\ errors[1] # event.kind
  /\ log = "applied"

\* C16: a maintenance_performed event without a location is a failure of
\* the batch: failed grows by one, one error is recorded, neither the zones
\* nor the maintenance records nor the dinosaurs change, and the loop goes
\* on with the events that remain.
C16_MaintenanceWithoutZoneFails ==
  [][ (Dispatched("maintenance_performed") /\ event'.location = NullText) =>
        /\ failed' = failed + 1
        /\ processed' = processed
        /\ errors' = Append(errors, "maintenance_performed")
        /\ UNCHANGED <<dinosaurs, zones, maintenanceRecords>>
        /\ pending' = pending - 1
        /\ eventsLength' = eventsLength
    ]_vars

\* A maintenance_performed event without a location failed as the first
\* event of a batch, nothing was written for it, and the event after it was
\* applied
C16_Witness ==
  /\ eventsLength = 2
  /\ pending = 0
  /\ errors = <<"maintenance_performed">>
  /\ failed = 1
  /\ processed = 1
  /\ event.kind = "dino_fed"
  /\ log = "applied"
  /\ zones = <<>>
  /\ maintenanceRecords = <<>>

\* A dino_added event one of whose fields is null
IncompleteAdded(e) ==
  /\ e.kind = "dino_added"
  /\ \/ e.id = NullNum
     \/ e.name = NullText
     \/ e.species = NullText
     \/ e.gender = NullText
     \/ e.digestion_period_in_hours = NullNum
     \/ e.park_id = NullNum

\* C17: a dino_added event with a required field missing is rejected: it
\* counts as a failure of the batch and no table changes.
C17_IncompleteAddedRejected ==
  [][ (pending' = pending - 1 /\ IncompleteAdded(event')) =>
        /\ failed' = failed + 1
        /\ processed' = processed
        /\ UNCHANGED <<dinosaurs, zones, maintenanceRecords>>
    ]_vars

\* C18: a dino_removed event for an id that is not stored leaves the tables
\* unchanged, counts as processed and records no failure; processing a
\* dino_removed event twice leaves the tables as processing it once does.
C18_RemovedUnknownTolerated ==
  [][ /\ (Dispatched("dino_removed") /\ event'.id \notin DOMAIN dinosaurs) =>
           /\ UNCHANGED <<dinosaurs, zones, maintenanceRecords>>
           /\ processed' = processed + 1
           /\ failed' = failed
           /\ errors' = errors
      /\ \A e \in DinoRemovedEvents :
           ApplyTimes(DB, e, 2) = ApplyTimes(DB, e, 1)
    ]_vars

\* A dino_removed event for dinosaur 7, which is not stored, was skipped as
\* the second event of a batch, and both events count as processed
C18_Witness ==
  /\ event.kind = "dino_removed"
  /\ event.id = 7
  /\ 7 \notin DOMAIN dinosaurs
  /\ log = "skipped"
  /\ eventsLength = 2
  /\ pending = 0
  /\ processed = 2
  /\ failed = 0
  /\ errors = <<>>

\* C19: a dino_removed event for an id under which a dinosaur is stored
\* deletes that row and leaves every other row, every zone and every
\* maintenance record unchanged.
C19_RemovedDeletesStored ==
  [][ (Dispatched("dino_removed") /\ event'.id \in DOMAIN dinosaurs) =>
        /\ DOMAIN dinosaurs' = DOMAIN dinosaurs \ {event'.id}
        /\ \A i \in DOMAIN dinosaurs' : dinosaurs'[i] = dinosaurs[i]
        /\ UNCHANGED <<zones, maintenanceRecords>>
    ]_vars

\* An event whose id is null, or a location update whose location is null
AbsentField(e) ==
  CASE e.kind = "dino_location_updated" ->
         e.dinosaur_id = NullNum \/ e.location = NullText
    [] e.kind = "dino_fed" -> e.dinosaur_id = NullNum
    [] e.kind = "dino_removed" -> e.id = NullNum
    [] OTHER -> FALSE

\* C20: a dino_location_updated event without id or without location, a
\* dino_fed event without id and a dino_removed event without id are
\* skipped: no table changes, errors does not grow, and the event counts as
\* processed, not as failed.
C20_AbsentFieldSkipped ==
  [][ (pending' = pending - 1 /\ AbsentField(event')) =>
        /\ UNCHANGED <<dinosaurs, zones, maintenanceRecords>>
        /\ errors' = errors
        /\ failed' = failed
        /\ processed' = processed + 1
        /\ log' = "skipped"
    ]_vars

\* A location update without a location was skipped for dinosaur 7, which
\* is stored with a location
C20_Witness ==
  /\ event.kind = "dino_location_updated"
  /\ event.dinosaur_id = 7
  /\ event.location = NullText
  /\ log = "skipped"
  /\ 7 \in DOMAIN dinosaurs
  /\ dinosaurs[7].currentLocation = "A0"
  /\ processed >= 1
  /\ failed = 0

\* The five kinds of events of the feed
KnownKinds ==
  { "dino_added", "dino_removed", "dino_location_updated", "dino_fed",
    "maintenance_performed" }

\* C21: an event whose kind is none of the five known kinds is ignored: no
\* table changes, no failure is recorded, the event counts as processed and
\* the loop goes on with the events that remain.
C21_UnknownKindIgnored ==
  [][ (pending' = pending - 1 /\ event'.kind \notin KnownKinds) =>
        /\ UNCHANGED <<dinosaurs, zones, maintenanceRecords>>
        /\ processed' = processed + 1
        /\ failed' = failed
        /\ errors' = errors
        /\ eventsLength' = eventsLength
    ]_vars

\* An event of unknown kind was warned about as the first event of a batch
\* of two, it counts as processed and the second event is still to come
C21_Witness ==
  /\ event.kind = "dino_hatched"
  /\ log = "unknown"
  /\ eventsLength = 2
  /\ pending = 1
  /\ processed = 1
  /\ failed = 0
  /\ errors = <<>>

\* C22: a store failure raised while an event of one of the five kinds is
\* applied fails that event: failed grows, an error is recorded and the
\* event is not counted as processed.
C22_StoreFailureFailsEvent ==
  [][ (pending' = pending - 1 /\ log' = "unavailable") =>
        /\ failed' = failed + 1
        /\ processed' = processed
        /\ Len(errors') = Len(errors) + 1
    ]_vars

\* The codes of the grid
ZoneCodes == CodesOf(GenerateAllZoneIds)

\* C23: every zone code held in the tables (a dinosaur's non-null
\* currentLocation, a zone's id, a maintenance record's zone) is one of the
\* 416 codes A0..Z15.
C23_ZoneCodesValid ==
  /\ \A i \in DOMAIN dinosaurs :
       dinosaurs[i].currentLocation # NullText =>
         dinosaurs[i].currentLocation \in ZoneCodes
  /\ DOMAIN zones \subseteq ZoneCodes
  /\ DOMAIN maintenanceRecords \subseteq ZoneCodes

C27_RemovedUpdateCommute ==
  \A r \in DinoRemovedEvents :
    \A u \in DinoLocationUpdatedEvents \cup DinoFedEvents :
      r.id = u.dinosaur_id =>
        ProcessEvents(DB, <<r, u>>).db = ProcessEvents(DB, <<u, r>>).db

\* C28: a stored dinosaur leaves the store only through a dino_removed
\* event for its id: no other event, of known or unknown kind, well-formed
\* or not, and no safety evaluation removes a row.
C28_OnlyRemovedDeletes ==
  [][ \A i \in DOMAIN dinosaurs :
        i \notin DOMAIN dinosaurs' =>
          /\ Dispatched("dino_removed")
          /\ event'.id = i
    ]_vars

\* Dinosaur 7, added, located and fed, is still stored after a zone was
\* maintained, its zone was evaluated and an event of unknown kind arrived
C28_Witness ==
  /\ 7 \in DOMAIN dinosaurs
  /\ dinosaurs[7].name = "Rex"
  /\ dinosaurs[7].currentLocation = "A0"
  /\ dinosaurs[7].lastFedTime = 1000
  /\ "A0" \in DOMAIN zones
  /\ verdict.zone = "A0"
  /\ event.kind = "dino_hatched"

\* The ways of running two batches one event at a time, each batch in its
\* own order
RECURSIVE Merges(_, _)
Merges(a, b) ==
  IF a = <<>> THEN {b}
  ELSE IF b = <<>> THEN {a}
  ELSE { <<Head(a)>> \o m : m \in Merges(Tail(a), b) }
         \cup { <<Head(b)>> \o m : m \in Merges(a, Tail(b)) }

\* Both runs are between events
Quiescent == \A r \in Runners : runner[r].pc = "idle"

\* C25: when two runs of processEvents interleave their statements, the
\* tables they leave are those of some sequential processing of the same
\* events, and the maintenance record of every zone agrees with the zone's
\* lastMaintenanceDate.
C25_ConcurrentRunsSerializable ==
  Quiescent =>
    /\ \E m \in Merges(runner[1].done, runner[2].done) :
         DB = ProcessEvents([dinosaurs |-> <<>>, zones |-> <<>>,
                             maintenanceRecords |-> <<>>], m).db
    /\ maintenanceRecords = zones

\* What a processor reads of the entity its event is about
EntityRead(db, e) ==
  CASE e.kind = "dino_added" -> AgentOf(db.dinosaurs, e.id)
    [] e.kind = "dino_removed" -> AgentOf(db.dinosaurs, e.id)
    [] e.kind = "maintenance_performed" ->
         [z \in DOMAIN db.maintenanceRecords \cap {e.location} |->
            db.maintenanceRecords[z]]
    [] OTHER -> AgentOf(db.dinosaurs, e.dinosaur_id)

\* C26: each event is applied atomically: between a processor's read of
\* the entity and its write, no statement of another run changes that
\* entity.
C26_ReadWriteAtomic ==
  [][ \A r \in Runners :
        (runner[r].pc = "write" /\ runner'[r] = runner[r]) =>
          EntityRead(DB, runner[r].event)' = EntityRead(DB, runner[r].event)
    ]_vars

\* C29: GET /api/zones/:id goes on to evaluate a zone only for the codes
\* of the grid: every id it answers with 200 is, once in upper case, one of
\* the 416 codes that generateAllZoneIds returns.
C29_AcceptedIdsAreZoneCodes ==
  (response.status = 200 /\ "id" \in DOMAIN response) =>
    response.id \in ZoneCodes

\* The cells of a grid
GridCells(grid) ==
  { <<row, c>> : row \in DOMAIN grid, c \in 1..26 }

AddressedId(e) ==
  CASE e.kind = "dino_added" -> e.id
    [] e.kind = "dino_removed" -> e.id
    [] e.kind = "dino_location_updated" -> e.dinosaur_id
    [] e.kind = "dino_fed" -> e.dinosaur_id
    [] OTHER -> NullNum

\* C35: every id under which dino_added stores a dinosaur, 0 included, is
\* an id the other three kinds accept: a location update for a stored id
\* leaves the dinosaur at the event's location, a feeding leaves it with the
\* event's time as last fed time, and a removal leaves no row under the id.
C35_StoredIdsAccepted ==
  [][ (pending' = pending - 1 /\ AddressedId(event') \in DOMAIN dinosaurs) =>
        LET i == AddressedId(event')
        IN  CASE event'.kind = "dino_location_updated" ->
                   /\ i \in DOMAIN dinosaurs'
                   /\ dinosaurs'[i].currentLocation = event'.location
              [] event'.kind = "dino_fed" ->
                   /\ i \in DOMAIN dinosaurs'
                   /\ dinosaurs'[i].lastFedTime = event'.time
              [] event'.kind = "dino_removed" -> i \notin DOMAIN dinosaurs'
              [] OTHER -> TRUE
    ]_vars

\* Longest sequence of events replayed from a store
MaxSequence == 2

\* dino_added, dino_location_updated and dino_fed events about dinosaur 7:
\* the well-formed ones, a dino_added without a name and a
\* dino_location_updated without a location
ReplayEvents ==
  { e \in IntactEvents \cup ConcurrentEvents :
      e.kind \in {"dino_added", "dino_location_updated", "dino_fed"} }
  \cup { e \in MalformedEvents :
           \/ e.kind = "dino_added" /\ e.id = 7 /\ e.name = NullText
           \/ e.kind = "dino_location_updated" /\ e.dinosaur_id = 7 }

ReplaySequences == UNION { [1..n -> ReplayEvents] : n \in 0..MaxSequence }

\* C36: from every store and for every sequence of dino_added,
\* dino_location_updated and dino_fed events, the processors that read the
\* row first and skip an unchanged event leave the same dinosaurs as the
\* processors that send the upsert for every event.
C36_SkipEqualsUpsert ==
  \A events \in ReplaySequences :
    ProcessEvents(DB, events).db.dinosaurs
      = UpsertingProcessFrom(DB, events, 1).dinosaurs

\* A feeding already stored was repeated and skipped after the read, and
\* the upsert of the same event would have left the row as it is
C36_Witness ==
  /\ event.kind = "dino_fed"
  /\ log = "skipped"
  /\ event.dinosaur_id \in DOMAIN dinosaurs
  /\ dinosaurs[event.dinosaur_id].lastFedTime = event.time
  /\ dinosaurs[event.dinosaur_id].name # NullText
  /\ UpsertingDinoFed(DB, event).log = "applied"
  /\ UpsertingDinoFed(DB, event).db = DB

\* C31: when a maintenance_performed event failed after its record was
\* written and before its zone was, and the same event is applied again
\* without failing, the zone holds the time of the event afterwards, equal
\* to the time of the zone's maintenance record.
C31_RetryCompletesZone ==
  [][ ( /\ log = "partial"
        /\ pending' = pending - 1
        /\ event' = event
        /\ log' \in {"applied", "skipped"} ) =>
        /\ event.location \in DOMAIN zones'
        /\ zones'[event.location] = event.time
        /\ maintenanceRecords'[event.location] = event.time
    ]_vars

\* A row as dino_location_updated or dino_fed inserts it, which no
\* dino_added has filled in
IsShell(row) == row = ShellRow(row.parkId, row.currentLocation, row.lastFedTime)

\* The rows that a dino_added has classified
Classified(rows) == [i \in { j \in DOMAIN rows : ~IsShell(rows[j]) } |-> rows[i]]

\* C33: a zone in which every dinosaur located is a shell (created by a
\* location update or a feeding, never added) is evaluated safe, and the
\* shells in a zone never change its evaluation: it is the one the
\* classified dinosaurs alone would give.
C33_ShellsAreHarmless ==
  \A z \in Locations :
    /\ (\A i \in DOMAIN dinosaurs :
          dinosaurs[i].currentLocation = z => IsShell(dinosaurs[i]))
         => CalculateZoneSafetyCaught(dinosaurs, z, now, FALSE).safe
    /\ CalculateZoneSafetyCaught(dinosaurs, z, now, FALSE).safe
         = CalculateZoneSafetyCaught(Classified(dinosaurs), z, now, FALSE).safe

\* Zone A0, whose only occupant is the never-fed shell of dinosaur 7, was
\* evaluated and found safe
C33_Witness ==
  /\ 7 \in DOMAIN dinosaurs
  /\ IsShell(dinosaurs[7])
  /\ dinosaurs[7].currentLocation = "A0"
  /\ dinosaurs[7].lastFedTime = NullNum
  /\ event.kind = "dino_location_updated"
  /\ verdict.zone = "A0"
  /\ verdict.safe
  /\ ~verdict.error

\* C37: isRunning, status.isRunning and the registration of the interval
\* timer always agree and at most one timer is registered; start() on a
\* running service and stop() on a stopped one change nothing; and the
\* running state changes only by a start() that finds the service stopped
\* or a stop() that finds it running, so the service runs iff the last such
\* call was start().
C37_RunningFlagsAgree ==
  /\ [] ( /\ service.status.isRunning = service.isRunning
          /\ service.pollInterval = service.isRunning
          /\ service.timers = (IF service.isRunning THEN 1 ELSE 0)
          /\ service.isRunning => StartService(service) = service
          /\ ~service.isRunning => StopService(service) = service )
  /\ [][ /\ (~service.isRunning /\ service'.isRunning) =>
              /\ service' = StartService(service)
              /\ \E p \in PollIds :
                   polls[p].pc = "idle" /\ polls'[p].caller = "start"
         /\ (service.isRunning /\ ~service'.isRunning) =>
              /\ service' = StopService(service)
              /\ polls' = polls
         /\ (service'.timers # service.timers
               \/ service'.pollInterval # service.pollInterval
               \/ service'.status.isRunning # service.status.isRunning)
              => service'.isRunning # service.isRunning
       ]_vars

\* The service was started, stopped and started again: it is running with
\* one timer, and its second poll is the one start() made
C37_Witness ==
  /\ service.isRunning
  /\ service.status.isRunning
  /\ service.timers = 1
  /\ polls[1].caller = "start"
  /\ polls[2].caller = "start"

\* The calls of pollNudlsFeed that are between their entry and their end
InFlight == { p \in PollIds : polls[p].pc \notin {"idle", "done"} }

\* C38: at most one poll of the service (the fetch with its retries and the
\* application of the batch) is under way at any time, whether it was made
\* by the interval timer, by start() or by pollOnce().
C38_OnePollInFlight == Cardinality(InFlight) <= 1

\* C39: between a stop() and the next start() the service enters no new
\* poll, applies no event to the store, and no poll changes the status
\* counters.
C39_StoppedIsQuiet ==
  [][ (~service.isRunning /\ ~service'.isRunning) =>
        /\ \A p \in PollIds : polls[p].pc = "idle" => polls'[p].pc = "idle"
        /\ UNCHANGED <<dinosaurs, zones, maintenanceRecords>>
        /\ polls' # polls => service'.status = service.status
    ]_vars

\* Sum of the five per-kind counters
SumOfKinds(counters) ==
  counters["dino_added"] + counters["dino_removed"]
    + counters["dino_location_updated"] + counters["dino_fed"]
    + counters["maintenance_performed"]

\* A poll ends with its fetch having returned the feed
EndsWithData(p) ==
  polls[p].pc # "done" /\ polls'[p].pc = "done" /\ polls'[p].outcome = "data"

\* A poll ends with its fetch having failed after all retries
EndsWithError(p) ==
  polls[p].pc # "done" /\ polls'[p].pc = "done" /\ polls'[p].outcome = "error"

\* C40: status.consecutiveFailures is 0 after every poll whose fetch
\* succeeded, for the empty feed and for a batch with failed events alike,
\* and grows by exactly 1 with every poll whose fetch failed after all
\* retries; totalEvents grows by the size of each fetched batch, and it
\* always equals the sum of the five per-kind counters (all events of the
\* feed being of known kinds).
C40_StatusCounters ==
  /\ [] ( service.status.totalEvents
            = SumOfKinds(service.status.eventsProcessed) )
  /\ [][ \A p \in PollIds :
           /\ EndsWithData(p) =>
                /\ service'.status.consecutiveFailures = 0
                /\ service'.status.totalEvents
                     = service.status.totalEvents + Len(polls'[p].events)
           /\ EndsWithError(p) =>
                /\ service'.status.consecutiveFailures
                     = service.status.consecutiveFailures + 1
                /\ service'.status.totalEvents = service.status.totalEvents
       ]_vars

\* After a poll that failed, a poll fetched the batch of two events, of
\* which the second failed: the failure counter is back at 0 and both
\* events are counted
C40_Witness ==
  /\ polls[1].pc = "done"
  /\ polls[1].outcome = "error"
  /\ polls[2].pc = "done"
  /\ polls[2].outcome = "data"
  /\ Len(polls[2].events) = 2
  /\ failed = 1
  /\ service.status.consecutiveFailures = 0
  /\ service.status.totalEvents = 2
  /\ service.status.eventsProcessed["dino_fed"] = 1
  /\ service.status.eventsProcessed["maintenance_performed"] = 1

\* The waits of a fetch, in order: min(1000 * 2^n, 30000) for n = 0, 1, 2
BackoffSchedule == <<1000, 2000, 4000>>

\* C32: a fetch of the feed makes at most 4 attempts, waits 1000, 2000 and
\* 4000 ms after the first, second and third failed attempt, makes no
\* further attempt once an attempt has returned the feed, raises its error
\* only after the fourth failed attempt, and always ends: every poll that
\* is fetching or waiting eventually has the feed or the error.
C32_FetchTerminates ==
  /\ [] ( \A p \in PollIds :
            /\ polls[p].retryCount + 1 <= 4
            /\ Len(polls[p].waited) =
                 polls[p].retryCount + (IF polls[p].pc = "delaying" THEN 1 ELSE 0)
            /\ \A n \in 1..Len(polls[p].waited) :
                 polls[p].waited[n] = BackoffSchedule[n]
            /\ polls[p].outcome = "error" =>
                 polls[p].retryCount + 1 = 4 /\ polls[p].pc = "done"
            /\ polls[p].outcome = "data" =>
                 polls[p].pc \in {"processing", "done"} )
  /\ [][ \A p \in PollIds :
           polls[p].outcome # "none" =>
             /\ polls'[p].outcome = polls[p].outcome
             /\ polls'[p].retryCount = polls[p].retryCount
             /\ polls'[p].waited = polls[p].waited
             /\ polls'[p].events = polls[p].events
       ]_vars
  /\ \A p \in PollIds :
       (polls[p].pc \in {"fetching", "delaying"})
          ~> (polls[p].outcome \in {"data", "error"})

\* The first poll got the feed at its third attempt, after waits of 1000
\* and 2000 ms; the second gave up after four failed attempts and waits of
\* 1000, 2000 and 4000 ms
C32_Witness ==
  /\ polls[1].outcome = "data"
  /\ polls[1].retryCount = 2
  /\ polls[1].waited = <<1000, 2000>>
  /\ polls[2].outcome = "error"
  /\ polls[2].retryCount = 3
  /\ polls[2].waited = <<1000, 2000, 4000>>

\* C34: while events are processed during a grid request, a carnivore that
\* was never fed and is located in some zone at every moment of the
\* request (a location update may move it) makes at least one cell of the
\* returned grid unsafe.
C34_HungryCarnivoreSeen ==
  (gridRequest.pc = "answered" /\ gridRequest.hungry) => gridRequest.unsafe # {}

====
